---------------------------- MODULE Spec2Model ----------------------------
(***************************************************************************)
(* Model of the BongoFiscalBridge file-mailbox correlation protocol:       *)
(* ECRBridgeService.waitForResponse (the polling correlator), its probe    *)
(* findResponseFile, the file helpers of fileUtils.ts and the error        *)
(* decoder parseErrorFile of errorParser.ts.                               *)
(*                                                                         *)
(* Text is modelled as a sequence of one-character strings, so that trim,  *)
(* split, toLowerCase, includes and the regular expressions of the decoder *)
(* are computed character by character as the code computes them.          *)
(*                                                                         *)
(* Time is in milliseconds.  Timers are ideal: the k-th callback of a      *)
(* setInterval(f, 200) started at time s runs at s + 200k, a callback runs *)
(* to completion with respect to every other callback of the process (one  *)
(* JavaScript thread), and the external driver, a separate process, may    *)
(* touch the outbox directories between any two filesystem accesses.       *)
(***************************************************************************)
EXTENDS Integers, Sequences, FiniteSets, TLC

(***************************************************************************)
(* Text primitives                                                         *)
(***************************************************************************)

Upper ==
    <<"A", "B", "C", "D", "E", "F", "G", "H", "I", "J", "K", "L", "M",
      "N", "O", "P", "Q", "R", "S", "T", "U", "V", "W", "X", "Y", "Z">>

Lower ==
    <<"a", "b", "c", "d", "e", "f", "g", "h", "i", "j", "k", "l", "m",
      "n", "o", "p", "q", "r", "s", "t", "u", "v", "w", "x", "y", "z">>

Digit ==
    {"0", "1", "2", "3", "4", "5", "6", "7", "8", "9"}

\* the characters String.prototype.trim strips and \s matches
WhiteSpace ==
    {" ", "\t", "\r", "\n", "\f"}

\* the characters the regular expression atom . does not match
LineTerminator ==
    {"\n", "\r"}

\* a const declaration: the initialiser is computed once, then named
Bind(value, Body(_)) ==
    CHOOSE result \in {Body(v) : v \in {value}} : TRUE

ToLowerChar(c) ==
    IF \E k \in 1..26 : Upper[k] = c
    THEN Lower[CHOOSE k \in 1..26 : Upper[k] = c]
    ELSE c

toLowerCase(s) ==
    [k \in 1..Len(s) |-> ToLowerChar(s[k])]

trim(s) ==
    IF \A k \in 1..Len(s) : s[k] \in WhiteSpace THEN <<>>
    ELSE SubSeq(s,
                CHOOSE k \in 1..Len(s) :
                    s[k] \notin WhiteSpace /\ \A j \in 1..(k - 1) : s[j] \in WhiteSpace,
                CHOOSE k \in 1..Len(s) :
                    s[k] \notin WhiteSpace /\ \A j \in (k + 1)..Len(s) : s[j] \in WhiteSpace)

\* s.startsWith(sub, p - 1): sub occurs in s at (1-based) position p
OccursAt(s, sub, p) ==
    /\ p >= 1
    /\ p + Len(sub) - 1 <= Len(s)
    /\ \A k \in 1..Len(sub) : s[p + k - 1] = sub[k]

includes(s, sub) ==
    \E p \in 1..(Len(s) + 1) : OccursAt(s, sub, p)

\* position of the leftmost occurrence of sub in s at or after from; 0 if none
IndexOfFrom(s, sub, from) ==
    Bind({p \in from..(Len(s) + 1) : OccursAt(s, sub, p)}, LAMBDA hits :
         IF hits = {} THEN 0
         ELSE CHOOSE p \in hits : \A q \in hits : p <= q)

\* errorContent.split('\n')
RECURSIVE splitLines(_)
splitLines(s) ==
    Bind(IndexOfFrom(s, <<"\n">>, 1), LAMBDA nl :
         IF nl = 0 THEN <<s>>
         ELSE Bind(SubSeq(s, nl + 1, Len(s)), LAMBDA rest :
                   <<SubSeq(s, 1, nl - 1)>> \o splitLines(rest)))

\* array.join(sep)
RECURSIVE join(_, _)
join(parts, sep) ==
    IF Len(parts) = 0 THEN <<>>
    ELSE IF Len(parts) = 1 THEN parts[1]
    ELSE parts[1] \o sep \o join(Tail(parts), sep)

\* the position just after the maximal run of whitespace that starts at p (\s*)
SkipWs(s, p) ==
    CHOOSE q \in p..(Len(s) + 1) :
        /\ \A k \in p..(q - 1) : s[k] \in WhiteSpace
        /\ (q = Len(s) + 1 \/ s[q] \notin WhiteSpace)

\* the position just after the maximal run of . characters that starts at p
SkipDot(s, p) ==
    CHOOSE q \in p..(Len(s) + 1) :
        /\ \A k \in p..(q - 1) : s[k] \notin LineTerminator
        /\ (q = Len(s) + 1 \/ s[q] \in LineTerminator)

IsDigitAt(s, p) ==
    p >= 1 /\ p <= Len(s) /\ s[p] \in Digit

IsCharAt(s, p, c) ==
    p >= 1 /\ p <= Len(s) /\ s[p] = c

\* case-insensitive literal (flag i)
IsCharAtI(s, p, c) ==
    p >= 1 /\ p <= Len(s) /\ ToLowerChar(s[p]) = ToLowerChar(c)

(***************************************************************************)
(* String literals of the program                                          *)
(***************************************************************************)

UnknownErrorLiteral ==
    <<"U", "n", "k", "n", "o", "w", "n", " ", "e", "r", "r", "o", "r", " ", "f", "r", "o", "m", " ", "E", "C", "R", " ", "B", "r", "i", "d", "g", "e">>

ExecutionLogMarker ==
    <<"e", "x", "e", "c", "u", "t", "i", "o", "n", " ", "l", "o", "g">>

ErrorUpper ==
    <<"E", "R", "R", "O", "R", ":">>

ErrorLower ==
    <<"e", "r", "r", "o", "r", ":">>

(***************************************************************************)
(* errorParser.ts                                                          *)
(***************************************************************************)

NoMatch ==
    [ok |-> FALSE, timestamp |-> <<>>, message |-> <<>>]

\* \d{1,2} followed by the literal c: the position after c, or 0
DigitsThen(s, p, c) ==
    IF IsDigitAt(s, p) /\ IsDigitAt(s, p + 1) /\ IsCharAt(s, p + 2, c) THEN p + 3
    ELSE IF IsDigitAt(s, p) /\ IsCharAt(s, p + 1, c) THEN p + 2
    ELSE 0

\* \s+ : the position after a non-empty maximal run of whitespace, or 0
Ws1(s, p) ==
    IF p >= 1 /\ p <= Len(s) /\ s[p] \in WhiteSpace THEN SkipWs(s, p) ELSE 0

(***************************************************************************)
(* An attempt of the regular expression                                    *)
(*   /(\d{1,2}\/\d{1,2}\/\d{4}\s+\d{1,2}:\d{2}:\d{2}\s+[AP]M)\s*-\s*ERROR:\s*(.+)/i *)
(* anchored at position p of line.  Every quantified atom is followed by   *)
(* an atom that its own characters cannot match, so the greedy choice is   *)
(* the only one, except for the last \s* before (.+), which gives back     *)
(* whitespace when nothing follows it.                                     *)
(***************************************************************************)
ErrorMatchAt(line, p) ==
    Bind(DigitsThen(line, p, "/"), LAMBDA a1 :
    Bind(IF a1 = 0 THEN 0 ELSE DigitsThen(line, a1, "/"), LAMBDA a2 :
    Bind(IF a2 # 0 /\ \A k \in 0..3 : IsDigitAt(line, a2 + k)
         THEN Ws1(line, a2 + 4) ELSE 0, LAMBDA a3 :
    Bind(IF a3 = 0 THEN 0 ELSE DigitsThen(line, a3, ":"), LAMBDA a4 :
    Bind(IF a4 # 0 /\ IsDigitAt(line, a4) /\ IsDigitAt(line, a4 + 1)
                   /\ IsCharAt(line, a4 + 2, ":")
                   /\ IsDigitAt(line, a4 + 3) /\ IsDigitAt(line, a4 + 4)
         THEN Ws1(line, a4 + 5) ELSE 0, LAMBDA a5 :
    Bind(IF a5 # 0 /\ (IsCharAtI(line, a5, "A") \/ IsCharAtI(line, a5, "P"))
                   /\ IsCharAtI(line, a5 + 1, "M")
         THEN a5 + 2 ELSE 0, LAMBDA a6 :
    Bind(IF a6 = 0 THEN 0 ELSE SkipWs(line, a6), LAMBDA dash :
    Bind(IF dash # 0 /\ IsCharAt(line, dash, "-") THEN SkipWs(line, dash + 1) ELSE 0,
         LAMBDA a7 :
    Bind(IF a7 # 0 /\ \A k \in 1..6 : IsCharAtI(line, a7 + k - 1, ErrorUpper[k])
         THEN a7 + 6 ELSE 0, LAMBDA a8 :
    \* \s*(.+): the latest start of the group, at most the end of the whitespace run
    Bind(IF a8 = 0 THEN {}
         ELSE {q \in a8..SkipWs(line, a8) :
                   q <= Len(line) /\ line[q] \notin LineTerminator}, LAMBDA starts :
    IF starts = {} THEN NoMatch
    ELSE Bind(CHOOSE q \in starts : \A r \in starts : r <= q, LAMBDA g :
              [ok        |-> TRUE,
               timestamp |-> SubSeq(line, p, a6 - 1),
               message   |-> SubSeq(line, g, SkipDot(line, g) - 1)])))))))))))

ErrorMatchNever(line) ==
    NoMatch

\* line.match(regex): the attempt at the leftmost position that succeeds
ErrorMatch(line) ==
    Bind({p \in 1..Len(line) : ErrorMatchAt(line, p).ok}, LAMBDA hits :
         IF hits = {} THEN NoMatch
         ELSE ErrorMatchAt(line, CHOOSE p \in hits : \A q \in hits : p <= q))

\* line.match(/^-+$/)
IsSeparator(line) ==
    Len(line) > 0 /\ \A k \in 1..Len(line) : line[k] = "-"

\* the piece of line.split(/ERROR:\s*/i) after the first separator at first
ErrorPiece(line, low, first) ==
    Bind(SkipWs(line, first + 6), LAMBDA from :
    Bind(IndexOfFrom(low, ErrorLower, from), LAMBDA next :
         IF next = 0 THEN SubSeq(line, from, Len(line))
         ELSE SubSeq(line, from, next - 1)))

\* line.split(/ERROR:\s*/i)[1] || line      (errorParser.ts line 85)
ErrorPart(line) ==
    Bind(toLowerCase(line), LAMBDA low :
    Bind(IndexOfFrom(low, ErrorLower, 1), LAMBDA first :
         IF first = 0 THEN line
         ELSE Bind(ErrorPiece(line, low, first), LAMBDA piece :
                   IF piece = <<>> THEN line ELSE piece)))

NonEmptyLine(line) ==
    Len(line) > 0

NotSeparator(line) ==
    ~IsSeparator(line)

ContentLinesKeepEmpty(errorContent) ==
    Bind(splitLines(errorContent), LAMBDA raw : [k \in 1..Len(raw) |-> trim(raw[k])])

\* lines = errorContent.split('\n').map(trim).filter(nonempty)
ContentLines(errorContent) ==
    Bind(splitLines(errorContent), LAMBDA raw :
         SelectSeq([k \in 1..Len(raw) |-> trim(raw[k])], NonEmptyLine))

ExecutionLogIndexOrFirst(lines) ==
    Bind({k \in 1..Len(lines) : includes(toLowerCase(lines[k]), ExecutionLogMarker)},
         LAMBDA hits :
         IF hits = {} THEN 1
         ELSE CHOOSE k \in hits : \A j \in hits : k <= j)

\* lines.findIndex(line => line.toLowerCase().includes('execution log')); 0 if none
ExecutionLogIndex(lines) ==
    Bind({k \in 1..Len(lines) : includes(toLowerCase(lines[k]), ExecutionLogMarker)},
         LAMBDA hits :
         IF hits = {} THEN 0
         ELSE CHOOSE k \in hits : \A j \in hits : k <= j)

ParsedError(originalCommand, hasTimestamp, timestamp, errorMessage, rawContent) ==
    [originalCommand |-> originalCommand,
     hasTimestamp    |-> hasTimestamp,
     timestamp       |-> timestamp,
     errorMessage    |-> errorMessage,
     rawContent      |-> rawContent]

RECURSIVE ScanLinesLastWins(_, _, _)
ScanLinesLastWins(lines, i, errorLines) ==
    IF i > Len(lines) THEN [strict |-> FALSE, match |-> NoMatch, errorLines |-> errorLines]
    ELSE Bind(ScanLinesLastWins(lines, i + 1, errorLines), LAMBDA later :
         IF later.strict \/ IsSeparator(lines[i]) \/ ~ErrorMatch(lines[i]).ok THEN later
         ELSE [strict |-> TRUE, match |-> ErrorMatch(lines[i]), errorLines |-> errorLines])

\* the for loop of parseErrorFile from line i: the strict match that ends it,
\* or the fragments collected on the way
RECURSIVE ScanLines(_, _, _)
ScanLines(lines, i, errorLines) ==
    IF i > Len(lines) THEN [strict |-> FALSE, match |-> NoMatch, errorLines |-> errorLines]
    ELSE Bind(lines[i], LAMBDA line :
         IF IsSeparator(line) \/ Len(line) = 0
         THEN ScanLines(lines, i + 1, errorLines)
         ELSE Bind(ErrorMatch(line), LAMBDA m :
              IF m.ok
              THEN [strict |-> TRUE, match |-> m, errorLines |-> errorLines]
              ELSE IF includes(line, ErrorUpper) \/ includes(line, ErrorLower)
              THEN Bind(Append(errorLines, trim(ErrorPart(line))), LAMBDA collected :
                        ScanLines(lines, i + 1, collected))
              ELSE ScanLines(lines, i + 1, errorLines)))

\* the part of parseErrorFile after the position of the marker is known
ParseLog(errorContent, lines, originalCommand, executionLogIndex) ==
    Bind(ScanLines(lines, executionLogIndex + 1, <<>>), LAMBDA scan :
    Bind(SelectSeq(SubSeq(lines, executionLogIndex + 1, Len(lines)), NotSeparator),
         LAMBDA remainingLines :
    Bind(trim(join(remainingLines, <<" ">>)), LAMBDA remainingContent :
         IF scan.strict
         THEN ParsedError(originalCommand, TRUE, scan.match.timestamp,
                          trim(scan.match.message), errorContent)
         ELSE IF Len(scan.errorLines) > 0
         THEN ParsedError(originalCommand, FALSE, <<>>,
                          join(scan.errorLines, <<";", " ">>), errorContent)
         ELSE ParsedError(originalCommand, FALSE, <<>>,
                          IF remainingContent # <<>> THEN remainingContent
                          ELSE UnknownErrorLiteral,
                          errorContent))))

parseErrorFileRawTrimmed(errorContent) ==
    IF errorContent = <<>> \/ trim(errorContent) = <<>>
    THEN ParsedError(<<>>, FALSE, <<>>, UnknownErrorLiteral, trim(errorContent))
    ELSE
    Bind(ContentLines(errorContent), LAMBDA lines :
    Bind(IF Len(lines) > 0 THEN lines[1] ELSE <<>>, LAMBDA originalCommand :
    Bind(ExecutionLogIndex(lines), LAMBDA executionLogIndex :
         IF executionLogIndex = 0
         THEN ParsedError(originalCommand, FALSE, <<>>,
                          IF trim(errorContent) # <<>> THEN trim(errorContent)
                          ELSE UnknownErrorLiteral,
                          errorContent)
         ELSE ParseLog(errorContent, lines, originalCommand, executionLogIndex))))

parseErrorFile(errorContent) ==
    IF errorContent = <<>> \/ trim(errorContent) = <<>>
    THEN ParsedError(<<>>, FALSE, <<>>, UnknownErrorLiteral, errorContent)
    ELSE
    Bind(ContentLines(errorContent), LAMBDA lines :
    Bind(IF Len(lines) > 0 THEN lines[1] ELSE <<>>, LAMBDA originalCommand :
    Bind(ExecutionLogIndex(lines), LAMBDA executionLogIndex :
         IF executionLogIndex = 0
         THEN ParsedError(originalCommand, FALSE, <<>>,
                          IF trim(errorContent) # <<>> THEN trim(errorContent)
                          ELSE UnknownErrorLiteral,
                          errorContent)
         ELSE ParseLog(errorContent, lines, originalCommand, executionLogIndex))))

(***************************************************************************)
(* Bounds and the inputs the model draws from                              *)
(***************************************************************************)

\* number of filesystem operations the external driver performs in one run
MaxDriverOps ==
    2

\* the same, in the runs checked for termination
MaxLiveDriverOps ==
    1

\* the same, in the runs with two concurrent invocations
MaxPairDriverOps ==
    1

\* deliveries of the driver plus changes of directory faults, in the runs
\* with failing directories
MaxFaultOps ==
    3

\* latest time at which an invocation may start
MaxStart ==
    100

\* the time up to which a run is followed
MaxClock ==
    800

\* the invocations of one run; Spec starts the first only, SpecPair both
Inv ==
    {1, 2}

\* ecrBridge.service.ts line 219
PollInterval ==
    200

NameA ==
    <<"b", "o", "n", "_", "2", "0", "2", "5", "0", "1", "0", "1", "1", "2", "0", "0", "0", "0", ".", "t", "x", "t">>

NameAUpper ==
    <<"B", "O", "N", "_", "2", "0", "2", "5", "0", "1", "0", "1", "1", "2", "0", "0", "0", "0", ".", "T", "X", "T">>

NameB ==
    <<"b", "o", "n", "_", "2", "0", "2", "5", "0", "1", "0", "1", "1", "2", "0", "0", "0", "1", ".", "t", "x", "t">>

\* the response names of the README: bon_{timestamp}.OK and bon_{timestamp}.ERR
NameAOK ==
    <<"b", "o", "n", "_", "2", "0", "2", "5", "0", "1", "0", "1", "1", "2", "0", "0", "0", "0", ".", "O", "K">>

NameAERR ==
    <<"b", "o", "n", "_", "2", "0", "2", "5", "0", "1", "0", "1", "1", "2", "0", "0", "0", "0", ".", "E", "R", "R">>

DocumentedNames ==
    {NameAOK, NameAERR}

\* file names the driver may use in the outbox directories
OutboxNames ==
    {NameA, NameAUpper, NameB}

\* file names the driver uses for error artifacts in the runs of Spec
ErrOutboxNames ==
    {NameA, NameAUpper}

\* every file name an outbox directory may hold
ResponseNames ==
    OutboxNames \cup DocumentedNames

EmptyContent ==
    <<>>

BlankContent ==
    <<" ", "\n">>

ScannerOfflineContent ==
    <<"I", ";", "C", "o", "f", "f", "e", "e", " ", "(", ")", ";", "1", ";", "5", ".", "0", "0", ";", "1", "\n", "-", "-", "-", "\n", "E", "x", "e", "c", "u", "t", "i", "o", "n", " ", "L", "o", "g", "\n", "-", "-", "-", "\n", "0", "1", "/", "0", "1", "/", "2", "0", "2", "5", " ", "1", "2", ":", "0", "0", ":", "0", "1", " ", "P", "M", " ", "-", " ", "E", "R", "R", "O", "R", ":", " ", "S", "c", "a", "n", "n", "e", "r", " ", "o", "f", "f", "l", "i", "n", "e">>

ScannerOffline ==
    <<"S", "c", "a", "n", "n", "e", "r", " ", "o", "f", "f", "l", "i", "n", "e">>

NoMarkerContent ==
    <<" ", "d", "i", "s", "k", " ", "f", "u", "l", "l", "\n">>

LooseContent ==
    <<"Z", ";", "1", "\n", "E", "x", "e", "c", "u", "t", "i", "o", "n", " ", "L", "o", "g", "\n", "e", "r", "r", "o", "r", ":", " ", "p", "a", "p", "e", "r", " ", "o", "u", "t">>

MarkerOnlyContent ==
    <<"Z", ";", "1", "\n", "E", "x", "e", "c", "u", "t", "i", "o", "n", " ", "L", "o", "g", "\n", "-", "-", "-", "\n">>

\* contents the driver may write into an error artifact
ErrContents ==
    {EmptyContent, BlankContent, ScannerOfflineContent, LooseContent}

\* the rendered live command of the Coffee transaction
EchoLive ==
    <<"F", "I", "S", "C", "A", "L", "\n", "I", ";", "C", "o", "f", "f", "e", "e", " ", "(", ")", ";", "1", ";", "5", ".", "0", "0", ";", "1", "\n", "P", ";", "0", ";", "0">>

\* a one-line command, the first line of LooseContent
EchoZ ==
    <<"Z", ";", "1">>

\* an absent value (null, undefined) and a present one
None ==
    [some |-> FALSE, val |-> <<>>]

Some(v) ==
    [some |-> TRUE, val |-> v]

(***************************************************************************)
(* Print requests: validator.ts, generateTimestamp, generateFileContent and *)
(* the command the controller rebuilds                                     *)
(***************************************************************************)

Cash ==
    <<"C", "A", "S", "H">>

Card ==
    <<"C", "A", "R", "D">>

Undefined ==
    <<"u", "n", "d", "e", "f", "i", "n", "e", "d">>

\* a legacy body: Coffee, 1h, 5, CASH
BodyCoffee ==
    [productName |-> Some(<<"C", "o", "f", "f", "e", "e">>), duration |-> Some(<<"1", "h">>),
     price |-> Some([sign |-> 1, finite |-> TRUE, text |-> <<"5">>]),
     items |-> None, paymentType |-> Cash]

\* a legacy body: Tea, 2h, 7.5, CARD
BodyTea ==
    [productName |-> Some(<<"T", "e", "a">>), duration |-> Some(<<"2", "h">>),
     price |-> Some([sign |-> 1, finite |-> TRUE, text |-> <<"7", ".", "5">>]),
     items |-> None, paymentType |-> Card]

\* a legacy body with price 0
BodyFree ==
    [productName |-> Some(<<"C", "o", "f", "f", "e", "e">>), duration |-> Some(<<"1", "h">>),
     price |-> Some([sign |-> 0, finite |-> TRUE, text |-> <<"0">>]),
     items |-> None, paymentType |-> Cash]

\* a body in the items format, without the legacy fields
BodyItems ==
    [productName |-> None, duration |-> None, price |-> None,
     items |-> Some(<<[name |-> <<"T", "e", "a">>, quantity |-> 1,
                       price |-> [sign |-> 1, finite |-> TRUE, text |-> <<"7", ".", "5">>]]>>),
     paymentType |-> Card]

\* a body with a payment type only
BodyEmpty ==
    [productName |-> None, duration |-> None, price |-> None, items |-> None,
     paymentType |-> Cash]

\* the bodies of the print requests of a run
Bodies ==
    {BodyCoffee, BodyTea, BodyFree, BodyItems, BodyEmpty}

\* receiptItemSchema (validator.ts lines 15-22)
ValidItem(item) ==
    /\ Len(item.name) >= 1
    /\ item.quantity > 0
    /\ item.price.sign = 1 /\ item.price.finite

\* validatePrintRequest(req.body).success: printRequestSchema and its refinement
\* (validator.ts lines 28-55, 68-87)
validatePrintRequest(body) ==
    /\ body.productName.some => Len(body.productName.val) >= 1
    /\ body.duration.some => Len(body.duration.val) >= 1
    /\ body.price.some => (body.price.val.sign = 1 /\ body.price.val.finite)
    /\ body.items.some => /\ Len(body.items.val) >= 1
                          /\ \A k \in 1..Len(body.items.val) : ValidItem(body.items.val[k])
    /\ body.paymentType \in {Cash, Card}
    /\ \/ body.items.some /\ Len(body.items.val) > 0
       \/ /\ body.productName.some /\ body.productName.val # <<>>
          /\ body.duration.some
          /\ body.price.some

ValidationFailedNever(success) ==
    FALSE

\* !validation.success || !validation.data   (print.controller.ts line 26)
ValidationFailed(success) ==
    ~success

\* `${value}` of an optional string
Interpolated(value) ==
    IF value.some THEN value.val ELSE Undefined

\* s.replace(',', '.'): the first comma becomes a dot
ReplaceComma(s) ==
    Bind(IndexOfFrom(s, <<",">>, 1), LAMBDA k :
         IF k = 0 \/ k > Len(s) THEN s
         ELSE [j \in 1..Len(s) |-> IF j = k THEN "." ELSE s[j]])

\* config.ecrBridge.fiscalCode (config.ts line 19): not set
FiscalCode ==
    None

HeaderLineBare(fiscalCode) ==
    <<"F", "I", "S", "C", "A", "L">>

\* headerLine = fiscalCode ? `FISCAL;${fiscalCode}` : 'FISCAL'
HeaderLineFor(fiscalCode) ==
    IF fiscalCode.some /\ fiscalCode.val # <<>>
    THEN <<"F", "I", "S", "C", "A", "L", ";">> \o fiscalCode.val
    ELSE <<"F", "I", "S", "C", "A", "L">>

\* the header line under the configuration of the runs
HeaderLine ==
    HeaderLineFor(FiscalCode)

\* a body with an item list and none of productName, duration and price
ItemsOnly(body) ==
    /\ body.items.some
    /\ ~body.productName.some /\ ~body.duration.some /\ ~body.price.some

\* price.toString() throws a TypeError when price is undefined
RenderThrows(data) ==
    ~data.price.some

\* `I;${productName} (${duration});1;${formattedPrice};1`
ItemLine(data) ==
    <<"I", ";">> \o Interpolated(data.productName) \o <<" ", "(">>
        \o Interpolated(data.duration) \o <<")", ";", "1", ";">>
        \o ReplaceComma(data.price.val.text) \o <<";", "1">>

\* the lines of the non-fiscal test receipt
TestLines(data) ==
    <<<<"T", "E", "X", "T">>,
      <<"T", ";">> \o Interpolated(data.productName) \o <<" ", "(">>
          \o Interpolated(data.duration) \o <<")", " ", " ", " ", " ", " ">>
          \o ReplaceComma(data.price.val.text),
      <<"T", ";", "-", "-", "-", "-", "-", "-", "-", "-", "-", "-", "-", "-", "-", "-", "-", "-", "-", "-", "-", "-">>,
      <<"T", ";", "T", "O", "T", "A", "L", ":", " ">> \o ReplaceComma(data.price.val.text),
      <<"T", ";", "P", "l", "a", "t", "a", ":", " ">> \o (IF data.paymentType = Cash THEN Cash ELSE Card),
      <<"T", ";", "B", "o", "n", " ", "N", "O", "N", "-", "F", "I", "S", "C", "A", "L", " ", "-", " ", "T", "E", "S", "T">>>>

\* generateFileContent(data, mode) with config.ecrBridge.fiscalCode being
\* fiscalCode   (ecrBridge.service.ts lines 65-114)
generateFileContentWith(data, mode, fiscalCode) ==
    IF mode = "live"
    THEN HeaderLineFor(fiscalCode) \o <<"\n">> \o ItemLine(data) \o <<"\n">>
             \o <<"P", ";">> \o (IF data.paymentType = Cash THEN <<"1">> ELSE <<"2">>)
             \o <<";", "0">>
    ELSE join(TestLines(data), <<"\n">>)

\* generateFileContent(data, mode) under the configuration of the runs
generateFileContent(data, mode) ==
    generateFileContentWith(data, mode, FiscalCode)

\* sentCommand of handlePrintRequest   (print.controller.ts lines 72-94)
SentCommand(data, mode) ==
    IF mode = "live"
    THEN HeaderLine \o <<"\n">> \o ItemLine(data) \o <<"\n">>
             \o <<"P", ";">> \o (IF data.paymentType = Cash THEN <<"0">> ELSE <<"1">>)
             \o <<";", "0">>
    ELSE join(TestLines(data), <<"\n">>)

\* Date.now() of the moment the run starts, within its minute
StartOfRun ==
    950

\* generateTimestamp() at time t of the run: YYYYMMDDHHmmss, 2025-01-01 12:00:00
\* being the second in which the run starts
generateTimestamp(t) ==
    <<"2", "0", "2", "5", "0", "1", "0", "1", "1", "2", "0", "0", "0">> \o <<<<"0", "1", "2", "3", "4", "5", "6", "7", "8", "9">>[((t + StartOfRun) \div 1000) + 1]>>

\* filename = `bon_${timestamp}.txt`
ReceiptFilename(timestamp) ==
    <<"b", "o", "n", "_">> \o timestamp \o <<".", "t", "x", "t">>

\* writeFileSafe(filePath, content) on the inbox dir, inbox telling what the
\* filesystem does: whether it succeeded, and the inbox afterwards
\* (fileUtils.ts lines 29-44)
writeFileSafe(dir, name, content, inbox) ==
    IF inbox = "works"
    THEN [ok |-> TRUE, dir |-> [dir EXCEPT ![name] = Some(content)]]
    ELSE [ok |-> FALSE, dir |-> dir]

generateReceiptFileFreshName(data, mode, inbox, t, dir) ==
    IF inbox = "mkdir_fails" THEN [filename |-> None, bon |-> dir]
    ELSE IF RenderThrows(data) THEN [filename |-> None, bon |-> dir]
    ELSE LET stamped  == ReceiptFilename(generateTimestamp(t))
             filename == IF dir[stamped].some
                         THEN CHOOSE n \in DOMAIN dir : n # stamped
                         ELSE stamped
             written  == writeFileSafe(dir, filename, generateFileContent(data, mode), inbox)
         IN  IF ~written.ok THEN [filename |-> None, bon |-> written.dir]
             ELSE [filename |-> Some(filename), bon |-> written.dir]

generateReceiptFileCreateFirst(data, mode, inbox, t, dir) ==
    IF inbox = "mkdir_fails" THEN [filename |-> None, bon |-> dir]
    ELSE IF RenderThrows(data)
    THEN [filename |-> None,
          bon |-> writeFileSafe(dir, ReceiptFilename(generateTimestamp(t)), <<>>, inbox).dir]
    ELSE LET filename == ReceiptFilename(generateTimestamp(t))
             written  == writeFileSafe(dir, filename, generateFileContent(data, mode), inbox)
         IN  IF ~written.ok THEN [filename |-> None, bon |-> written.dir]
             ELSE [filename |-> Some(filename), bon |-> written.dir]

generateReceiptFileUnchecked(data, mode, inbox, t, dir) ==
    IF inbox = "mkdir_fails" \/ RenderThrows(data) THEN [filename |-> None, bon |-> dir]
    ELSE [filename |-> Some(ReceiptFilename(generateTimestamp(t))),
          bon |-> writeFileSafe(dir, ReceiptFilename(generateTimestamp(t)),
                                generateFileContent(data, mode), inbox).dir]

\* generateReceiptFile(data, mode) at time t on the inbox dir: the generated
\* filename, or None for null, and the inbox afterwards (lines 122-157)
generateReceiptFile(data, mode, inbox, t, dir) ==
    IF inbox = "mkdir_fails" THEN [filename |-> None, bon |-> dir]
    ELSE IF RenderThrows(data) THEN [filename |-> None, bon |-> dir]
    ELSE LET filename == ReceiptFilename(generateTimestamp(t))
             written  == writeFileSafe(dir, filename, generateFileContent(data, mode), inbox)
         IN  IF ~written.ok THEN [filename |-> None, bon |-> written.dir]
             ELSE [filename |-> Some(filename), bon |-> written.dir]

\* the opposite of !filename   (print.controller.ts line 46)
FileGenerated(filename) ==
    filename.some

ResponseStatusTimeoutAsFailure(outcome, mode) ==
    IF outcome = "SUCCEEDED" THEN 200
    ELSE IF mode = "test" THEN 500
    ELSE IF outcome = "FAILED" THEN 500 ELSE 504

\* the status of the response to an outcome of waitForResponse
\* (print.controller.ts lines 108-176)
ResponseStatus(outcome, mode) ==
    IF outcome = "SUCCEEDED" THEN (IF mode = "test" THEN 200 ELSE 200)
    ELSE IF outcome = "FAILED" THEN (IF mode = "test" THEN 500 ELSE 500)
    ELSE (IF mode = "test" THEN 504 ELSE 504)

\* an omitted timeout argument
Omitted ==
    0 - 1

\* the arguments <<filename, expectedCommand, timeout>> of the calls of Spec
CallArgs ==
    {<<NameA, None, Omitted>>, <<NameA, Some(EchoLive), Omitted>>,
     <<NameA, Some(EchoLive), 300>>, <<NameA, None, 0>>,
     <<NameA, Some(EchoZ), Omitted>>}

\* the arguments of the calls of LiveSpec
LiveCallArgs ==
    {<<NameA, None, Omitted>>, <<NameA, Some(EchoLive), Omitted>>,
     <<NameA, Some(EchoLive), 300>>, <<NameA, None, 0>>}

\* the arguments of the calls of SpecPair
PairCallArgs ==
    {<<NameA, Some(EchoLive), Omitted>>, <<NameA, None, 300>>,
     <<NameB, Some(EchoLive), 0>>, <<NameB, None, Omitted>>}

\* the arguments of the calls of SpecFault
FaultCallArgs ==
    {<<NameA, Some(EchoLive), Omitted>>, <<NameA, None, 300>>}

\* values of RESPONSE_TIMEOUT (config.ts line 23), the default timeout
ConfigTimeouts ==
    {200, 500}

\* the amounts by which the clock moves between two events
ClockSteps ==
    {PollInterval \div 2, PollInterval}

Terminal ==
    {"SUCCEEDED", "FAILED", "TIMED_OUT"}

\* config.bridgeMode (config.ts lines 30, 47)
BridgeModes ==
    {"live", "test"}

\* the print requests of one run
Req ==
    {1, 2}

\* the names generateReceiptFile can produce in one run
InboxNames ==
    {NameA, NameB}

\* what the filesystem does to the inbox during generateReceiptFile
InboxBehaviours ==
    {"works", "mkdir_fails", "write_fails"}

\* config.ecrBridge.bonOkPath and config.ecrBridge.bonErrPath
Outboxes ==
    {"BonOK", "BonErr"}

\* the ways the filesystem calls on a directory fail: not at all, readdirSync
\* throws (the directory cannot be listed), or the directory cannot be reached
\* at all (existsSync is false for it and for every path below it)
DirFaults ==
    {"none", "nolist", "noaccess"}

(***************************************************************************)
(* State                                                                   *)
(***************************************************************************)

VARIABLES
    now,              \* Date.now()
    responseTimeout,  \* config.responseTimeout
    bridgeMode,       \* config.bridgeMode
    bon,              \* name -> content of the files in the inbox (Bon)
    req,              \* per print request: position of its handler, response, history
    bonOk,            \* names of the files in the success-outbox (BonOK)
    bonErr,           \* name -> content of the files in the error-outbox (BonErr)
    dirFault,         \* per outbox directory: how the filesystem calls on it fail
    driverOps,        \* operations of the external driver and events of the filesystem
    running,          \* the invocation whose timer callback is executing, 0 if none
    call,             \* per invocation: arguments, promise, interval timer, callback position
    hist,             \* per invocation: history of what it did (not read by the program)
    applied           \* the function applied on its own, its input and its result

\* the state of the service, the controller and the directories
served ==
    <<now, responseTimeout, bridgeMode, bon, req, bonOk, bonErr, dirFault, driverOps,
      running, call, hist>>

vars ==
    <<served, applied>>

\* names of the files present in the error-outbox
ErrNames ==
    {n \in ResponseNames : bonErr[n].some}

\* a file whose name equals filename ignoring letter case is in the directory
Present(dirNames, filename) ==
    \E f \in dirNames : toLowerCase(f) = toLowerCase(filename)

(***************************************************************************)
(* fileUtils.ts and the probes of ecrBridge.service.ts                     *)
(***************************************************************************)

\* a directory as the filesystem calls of a probe see it
Directory(d) ==
    [files |-> IF d = "BonOK" THEN bonOk ELSE ErrNames, fault |-> dirFault[d]]

\* fileExists(path.join(dir, filename)): fs.existsSync, false on any error
fileExists(dir, filename) ==
    dir.fault # "noaccess" /\ filename \in dir.files

\* listDirectoryContents(dir): [] when the directory does not exist for
\* existsSync or readdirSync throws, otherwise what readdirSync returns
listDirectoryContents(dir) ==
    IF dir.fault = "none" THEN dir.files ELSE {}

findResponseFileExactOnly(dir, filename) ==
    IF fileExists(dir, filename) THEN Some(filename) ELSE None

findResponseFileAny(dir, filename) ==
    IF dir.files # {} THEN Some(CHOOSE f \in dir.files : TRUE) ELSE None

findResponseFileThrough(dir, filename) ==
    IF filename \in dir.files THEN Some(filename)
    ELSE LET filenameLower == toLowerCase(filename)
             matching      == {f \in dir.files : toLowerCase(f) = filenameLower}
         IN  IF matching # {} THEN Some(CHOOSE f \in matching : TRUE) ELSE None

\* findResponseFile(dir, filename): the file found, or null
findResponseFile(dir, filename) ==
    IF fileExists(dir, filename) THEN Some(filename)
    ELSE LET dirContents   == listDirectoryContents(dir)
             filenameLower == toLowerCase(filename)
             matching      == {f \in dirContents : toLowerCase(f) = filenameLower}
         IN  IF matching # {} THEN Some(CHOOSE f \in matching : TRUE) ELSE None

\* readFileSafe(path) on the error-outbox: the content, or null when the file is gone
readFileSafe(dir, file) ==
    IF dirFault["BonErr"] # "noaccess" /\ dir[file].some THEN Some(dir[file].val) ELSE None

ErrorMessageOfRaw(errorContent) ==
    IF errorContent.some /\ errorContent.val # <<>> THEN errorContent.val
    ELSE UnknownErrorLiteral

ErrorMessageOfNoFallback(errorContent) ==
    IF errorContent.some /\ errorContent.val # <<>>
    THEN parseErrorFile(errorContent.val).errorMessage
    ELSE <<>>

\* parsedError = errorContent ? parseErrorFile(errorContent) : null
\* errorMessage = parsedError?.errorMessage || errorContent || 'Unknown error from ECR Bridge'
ErrorMessageOf(errorContent) ==
    Bind(errorContent.some /\ errorContent.val # <<>>, LAMBDA truthy :
    Bind(IF truthy THEN parseErrorFile(errorContent.val).errorMessage ELSE <<>>,
         LAMBDA parsedMsg :
         IF parsedMsg # <<>> THEN parsedMsg
         ELSE IF truthy THEN errorContent.val
         ELSE UnknownErrorLiteral))

\* what follows the echoed command in an error artifact
ExecutionLogOfError ==
    <<"\n", "-", "-", "-", " ", "E", "x", "e", "c", "u", "t", "i", "o", "n", " ", "L", "o", "g", " ", "-", "-", "-", "\n", "1", "1", "/", "1", "3", "/", "2", "0", "2", "5", " ", "1", ":", "5", "3", ":", "3", "4", " ", "A", "M", " ", "-", " ", "E", "R", "R", "O", "R", ":", " ", "X">>

\* error artifacts that begin with the whole command of the Coffee request,
\* as handlePrintRequest rebuilds it in live and in test mode
EchoContents ==
    {SentCommand(BodyCoffee, mode) \o ExecutionLogOfError : mode \in BridgeModes}

\* what readFileSafe can return in a run
ReadResults ==
    {None} \cup {Some(content) : content \in ErrContents \cup EchoContents}

\* ErrorMessageOf tabulated over ReadResults, so that the decoder is evaluated
\* once per content and not once per state
ErrorMessageTable ==
    [errorContent \in ReadResults |-> ErrorMessageOf(errorContent)]

\* parsedError?.originalCommand for each result of readFileSafe ('' when null)
OriginalCommandTable ==
    [errorContent \in ReadResults |->
        IF errorContent.some /\ errorContent.val # <<>>
        THEN parseErrorFile(errorContent.val).originalCommand
        ELSE <<>>]

CommandVerificationFirstLine(expectedCommand, errorContent) ==
    IF expectedCommand.some /\ expectedCommand.val # <<>>
       /\ OriginalCommandTable[errorContent] # <<>>
    THEN IF trim(OriginalCommandTable[errorContent]) = trim(splitLines(expectedCommand.val)[1])
         THEN "debug" ELSE "warn"
    ELSE "none"

\* the verification of lines 309-324: "warn" on a mismatch, "debug" on a match,
\* "none" when there is nothing to compare
CommandVerification(expectedCommand, errorContent) ==
    IF expectedCommand.some /\ expectedCommand.val # <<>>
       /\ OriginalCommandTable[errorContent] # <<>>
    THEN IF trim(OriginalCommandTable[errorContent]) = trim(expectedCommand.val)
         THEN "debug" ELSE "warn"
    ELSE "none"

IsTimedOutOneTickEarly(elapsed, timeout) ==
    elapsed + PollInterval >= timeout

IsTimedOutNever(elapsed, timeout) ==
    FALSE

IsTimedOutStrict(elapsed, timeout) ==
    elapsed > timeout

\* elapsed >= timeout     (ecrBridge.service.ts line 233)
IsTimedOut(elapsed, timeout) ==
    elapsed >= timeout

clearIntervalNoop(c) ==
    c

\* clearInterval(checkInterval)
clearInterval(c) ==
    [c EXCEPT !.timer = FALSE]

EffectiveTimeoutDefault(timeoutArg) ==
    responseTimeout

\* timeout: number = config.responseTimeout   (default parameter, line 207)
EffectiveTimeout(timeoutArg) ==
    IF timeoutArg < 0 THEN responseTimeout ELSE timeoutArg

FinalOutcomeOkFirst(errFile, okFile) ==
    IF okFile.some THEN "SUCCEEDED"
    ELSE IF errFile.some THEN "FAILED"
    ELSE "TIMED_OUT"

\* the decision after the two final probes (lines 240, 265, 290)
FinalOutcome(errFile, okFile) ==
    IF errFile.some THEN "FAILED"
    ELSE IF okFile.some THEN "SUCCEEDED"
    ELSE "TIMED_OUT"

NoResult ==
    [kind |-> "none", success |-> FALSE, details |-> None, filename |-> <<>>]

\* resolve({success: true, filename})
SuccessResult(filename) ==
    [kind |-> "resolve", success |-> TRUE, details |-> None, filename |-> filename]

\* resolve({success: false, details: errorMessage, filename})
FailureResult(filename, errorMessage) ==
    [kind |-> "resolve", success |-> FALSE, details |-> Some(errorMessage),
     filename |-> filename]

\* reject(new Error(`Timeout waiting for response after ${timeout}ms. File: ${filename}`))
TimeoutRejection(filename) ==
    [kind |-> "reject", success |-> FALSE, details |-> None, filename |-> filename]

\* resolve / reject of the promise: only the first call settles it
Settle(c, outcome, value) ==
    IF c.state = "WAITING"
    THEN [c EXCEPT !.state = outcome, !.result = value]
    ELSE c

ResolveFailureIfVerified(c, errorContent) ==
    IF CommandVerification(c.expectedCommand, errorContent) = "warn" THEN c
    ELSE Settle(c, "FAILED", FailureResult(c.filename, ErrorMessageTable[errorContent]))

ResolveFailureIfReadable(c, errorContent) ==
    IF ~errorContent.some \/ errorContent.val = <<>> THEN [c EXCEPT !.timer = TRUE]
    ELSE Settle(c, "FAILED", FailureResult(c.filename, ErrorMessageTable[errorContent]))

\* resolve({success: false, details: errorMessage, filename}) of the polling
\* branch, after the verification (lines 326-346)
ResolveFailure(c, errorContent) ==
    Settle(c, "FAILED", FailureResult(c.filename, ErrorMessageTable[errorContent]))

\* the callback returns
Return(c) ==
    [c EXCEPT !.pc = "idle"]

InitCall ==
    [state |-> "NOT_STARTED", filename |-> <<>>, expectedCommand |-> None,
     timeout |-> 0, startTime |-> 0, timer |-> FALSE, nextTick |-> 0,
     pc |-> "idle", errFile |-> None, okFile |-> None, result |-> NoResult,
     listening |-> FALSE]

InitHist ==
    [emits |-> 0, resolvedAt |-> 0, ioAfterEmit |-> FALSE, ticks |-> 0,
     ticksAfterEmit |-> 0, matchSeen |-> FALSE, viaFinal |-> FALSE,
     lastTick |-> 0, errSeen |-> FALSE, okSeen |-> FALSE, okAtErrProbe |-> FALSE,
     finalProbes |-> 0, bothAtEmit |-> FALSE, content |-> None,
     timerAtEmit |-> FALSE, timeoutArg |-> 0, verification |-> "none",
     missedByFault |-> FALSE]

\* history: a filesystem access of the invocation
Io(h) ==
    [h EXCEPT !.ioAfterEmit = @ \/ h.emits > 0]

\* history: a call of resolve or reject, c being the invocation after the call
Emitted(h, c, filename) ==
    [h EXCEPT !.emits = @ + 1,
              !.resolvedAt = IF h.emits = 0 THEN now ELSE @,
              !.timerAtEmit = @ \/ c.timer,
              !.bothAtEmit = @ \/ (Present(ErrNames, filename) /\ Present(bonOk, filename))]

\* no function has been applied on its own
NotApplied ==
    [fn |-> "none"]

\* a print request that has not arrived; writes, waits and responses count
\* what its handler did
InitReq ==
    [pc |-> "new", valid |-> FALSE, generated |-> FALSE, inv |-> 0, status |-> 0,
     inbox |-> "works", threw |-> FALSE, itemsOnly |-> FALSE, name |-> <<>>,
     content |-> None,
     writes |-> 0, waits |-> 0, responses |-> 0]

\* the state after start-up with BRIDGE_MODE being one of modes
InitWith(modes) ==
    /\ now = 0
    /\ responseTimeout \in ConfigTimeouts
    /\ bridgeMode \in modes
    /\ bon = [n \in InboxNames |-> None]
    /\ req = [r \in Req |-> InitReq]
    /\ bonOk = {}
    /\ bonErr = [n \in ResponseNames |-> None]
    /\ dirFault = [d \in Outboxes |-> "none"]
    /\ driverOps = 0
    /\ running = 0
    /\ call = [i \in Inv |-> InitCall]
    /\ hist = [i \in Inv |-> InitHist]
    /\ applied = NotApplied

Init ==
    InitWith({"live"})

(***************************************************************************)
(* The external driver                                                     *)
(***************************************************************************)

\* the driver moves a processed command into the success-outbox
DriverPlaceOk(n, budget) ==
    /\ driverOps < budget
    /\ n \notin bonOk
    /\ bonOk' = bonOk \cup {n}
    /\ driverOps' = driverOps + 1
    /\ UNCHANGED <<now, responseTimeout, bridgeMode, applied, bon, req, dirFault, bonErr,
                   running, call, hist>>

\* the driver writes (or overwrites, or truncates) an error artifact
DriverPlaceErr(n, content, budget) ==
    /\ driverOps < budget
    /\ bonErr[n] # Some(content)
    /\ bonErr' = [bonErr EXCEPT ![n] = Some(content)]
    /\ driverOps' = driverOps + 1
    /\ UNCHANGED <<now, responseTimeout, bridgeMode, applied, bon, req, dirFault, bonOk,
                   running, call, hist>>

\* the driver (or an operator) removes an error artifact
DriverRemoveErr(n, budget) ==
    /\ driverOps < budget
    /\ bonErr[n].some
    /\ bonErr' = [bonErr EXCEPT ![n] = None]
    /\ driverOps' = driverOps + 1
    /\ UNCHANGED <<now, responseTimeout, bridgeMode, applied, bon, req, dirFault, bonOk,
                   running, call, hist>>

\* the filesystem starts or stops failing on an outbox directory (permissions
\* changed, a share unmounted or mounted again)
DirectoryFault(d, fault, budget) ==
    /\ driverOps < budget
    /\ dirFault[d] # fault
    /\ dirFault' = [dirFault EXCEPT ![d] = fault]
    /\ driverOps' = driverOps + 1
    /\ UNCHANGED <<now, responseTimeout, bridgeMode, applied, bon, req, bonOk, bonErr,
                   running, call, hist>>

(***************************************************************************)
(* The caller and the clock                                                *)
(***************************************************************************)

ensureDirectoryExistsAfresh(dir, empty) ==
    empty

\* ensureDirectoryExists(dirPath) on an outbox: a missing directory is created
\* (it is then as empty as it was), an existing one is left as it is
ensureDirectoryExists(dir, empty) ==
    dir

FirstTickImmediate(t) ==
    t

\* setInterval(callback, pollInterval) at time t: when the callback first runs
FirstTick(t) ==
    t + PollInterval

\* waitForResponse(filename, expectedCommand, timeout) up to setInterval (lines 204-229, 372)
StartWaiting(i, fname, echo, timeoutArg) ==
    /\ running = 0
    /\ call[i].state = "NOT_STARTED"
    /\ \A j \in Inv : j < i => call[j].state # "NOT_STARTED"
    /\ now <= MaxStart
    /\ bonOk' = ensureDirectoryExists(bonOk, {})
    /\ bonErr' = ensureDirectoryExists(bonErr, [n \in ResponseNames |-> None])
    /\ call' = [call EXCEPT ![i] =
                   [@ EXCEPT !.state = "WAITING", !.filename = fname,
                             !.expectedCommand = echo,
                             !.timeout = EffectiveTimeout(timeoutArg),
                             !.startTime = now, !.timer = TRUE,
                             !.nextTick = FirstTick(now),
                             !.listening = TRUE]]
    /\ hist' = [hist EXCEPT ![i] = [Io(@) EXCEPT !.timeoutArg = timeoutArg]]
    /\ UNCHANGED <<now, responseTimeout, bridgeMode, applied, dirFault, driverOps, running>>

\* a call of waitForResponse by a caller other than the print controller
WaitForResponse(i, fname, echo, timeoutArg) ==
    /\ StartWaiting(i, fname, echo, timeoutArg)
    /\ UNCHANGED <<bon, req>>

\* the caller stops listening (the HTTP client disconnects); nothing in the
\* service refers to it
CallerDisconnect(i) ==
    /\ running = 0
    /\ call[i].state = "WAITING"
    /\ call[i].listening
    /\ call' = [call EXCEPT ![i] = [@ EXCEPT !.listening = FALSE]]
    /\ UNCHANGED <<now, responseTimeout, bridgeMode, applied, bon, req, dirFault, bonOk,
                   bonErr, driverOps, running, hist>>

\* time passes, up to the next timer that is due, in a run followed up to limit
AdvanceWithin(d, limit) ==
    /\ running = 0
    /\ now + d <= limit
    /\ \A i \in Inv : call[i].timer => now + d <= call[i].nextTick
    /\ now' = now + d
    /\ UNCHANGED <<responseTimeout, bridgeMode, applied, bon, req, dirFault, bonOk, bonErr,
                   driverOps, running, call, hist>>

\* time passes, up to the next timer that is due
Advance(d) ==
    AdvanceWithin(d, MaxClock)

(***************************************************************************)
(* The interval callback of waitForResponse (lines 229-372), one action    *)
(* per filesystem access                                                   *)
(***************************************************************************)

\* the timer fires: elapsed is computed and the deadline is checked (lines 230-234)
TimerFire(i) ==
    /\ running = 0
    /\ call[i].timer
    /\ now = call[i].nextTick
    /\ LET elapsed == now - call[i].startTime
           armed   == [call[i] EXCEPT !.nextTick = @ + PollInterval,
                                      !.errFile = None, !.okFile = None]
       IN  /\ call' = [call EXCEPT ![i] =
                          IF IsTimedOut(elapsed, call[i].timeout)
                          THEN [clearInterval(armed) EXCEPT !.pc = "final_err"]
                          ELSE [armed EXCEPT !.pc = "poll_err"]]
           /\ hist' = [hist EXCEPT ![i] =
                          [@ EXCEPT !.ticks = @ + 1,
                                    !.ticksAfterEmit = @ + (IF hist[i].emits > 0 THEN 1 ELSE 0),
                                    !.viaFinal = @ \/ (hist[i].emits = 0
                                                       /\ IsTimedOut(elapsed, call[i].timeout)),
                                    !.lastTick = IF hist[i].emits = 0 THEN now ELSE @]]
    /\ running' = i
    /\ UNCHANGED <<now, responseTimeout, bridgeMode, applied, bon, req, dirFault, bonOk,
                   bonErr, driverOps>>

\* const errFile = this.findResponseFile(bonErrPath, filename)   (line 300)
PollErr(i) ==
    /\ running = i
    /\ call[i].pc = "poll_err"
    /\ LET errFile == findResponseFile(Directory("BonErr"), call[i].filename)
       IN  /\ call' = [call EXCEPT ![i] =
                          IF errFile.some
                          THEN [clearInterval(@) EXCEPT !.errFile = errFile, !.pc = "poll_read"]
                          ELSE [@ EXCEPT !.errFile = errFile, !.pc = "poll_ok"]]
           /\ hist' = [hist EXCEPT ![i] =
                          [Io(@) EXCEPT !.errSeen = Present(ErrNames, call[i].filename),
                                        !.okSeen = FALSE,
                                        !.okAtErrProbe = Present(bonOk, call[i].filename),
                                        !.matchSeen = @ \/ Present(ErrNames, call[i].filename),
                                        !.missedByFault =
                                            @ \/ (Present(ErrNames, call[i].filename)
                                                  /\ ~errFile.some)]]
    /\ UNCHANGED <<now, responseTimeout, bridgeMode, applied, bon, req, dirFault, bonOk,
                   bonErr, driverOps, running>>

\* readFileSafe(errFile), parseErrorFile, resolve failure   (lines 305-347)
PollRead(i) ==
    /\ running = i
    /\ call[i].pc = "poll_read"
    /\ LET errorContent == readFileSafe(bonErr, call[i].errFile.val)
           after == Return(ResolveFailure(call[i], errorContent))
       IN  /\ call' = [call EXCEPT ![i] = after]
           /\ hist' = [hist EXCEPT ![i] =
                          [Emitted(Io(@), after, call[i].filename)
                               EXCEPT !.content = IF hist[i].emits = 0 THEN errorContent ELSE @,
                                      !.verification =
                                          CommandVerification(call[i].expectedCommand,
                                                              errorContent)]]
    /\ running' = 0
    /\ UNCHANGED <<now, responseTimeout, bridgeMode, applied, bon, req, dirFault, bonOk,
                   bonErr, driverOps>>

\* const okFile = this.findResponseFile(bonOkPath, filename), resolve success (lines 352-369)
PollOk(i) ==
    /\ running = i
    /\ call[i].pc = "poll_ok"
    /\ LET okFile == findResponseFile(Directory("BonOK"), call[i].filename)
           seen   == [Io(hist[i]) EXCEPT !.okSeen = Present(bonOk, call[i].filename),
                                         !.matchSeen = @ \/ Present(bonOk, call[i].filename),
                                         !.missedByFault =
                                             @ \/ (Present(bonOk, call[i].filename)
                                                   /\ ~okFile.some)]
           after  == Return(Settle(clearInterval(call[i]), "SUCCEEDED",
                                   SuccessResult(call[i].filename)))
       IN  IF okFile.some
           THEN /\ call' = [call EXCEPT ![i] = [after EXCEPT !.okFile = okFile]]
                /\ hist' = [hist EXCEPT ![i] = Emitted(seen, after, call[i].filename)]
           ELSE /\ call' = [call EXCEPT ![i] = Return([@ EXCEPT !.okFile = okFile])]
                /\ hist' = [hist EXCEPT ![i] = seen]
    /\ running' = 0
    /\ UNCHANGED <<now, responseTimeout, bridgeMode, applied, bon, req, dirFault, bonOk,
                   bonErr, driverOps>>

\* final check: const errFile = this.findResponseFile(bonErrPath, filename)   (line 237)
FinalErr(i) ==
    /\ running = i
    /\ call[i].pc = "final_err"
    /\ call' = [call EXCEPT ![i] =
                   [@ EXCEPT !.errFile = findResponseFile(Directory("BonErr"), call[i].filename),
                             !.pc = "final_ok"]]
    /\ hist' = [hist EXCEPT ![i] =
                   [Io(@) EXCEPT !.errSeen = Present(ErrNames, call[i].filename),
                                 !.okSeen = FALSE,
                                 !.okAtErrProbe = Present(bonOk, call[i].filename),
                                 !.finalProbes = @ + 1,
                                 !.matchSeen = @ \/ Present(ErrNames, call[i].filename),
                                 !.missedByFault =
                                     @ \/ (Present(ErrNames, call[i].filename)
                                           /\ ~findResponseFile(Directory("BonErr"),
                                                                 call[i].filename).some)]]
    /\ UNCHANGED <<now, responseTimeout, bridgeMode, applied, bon, req, dirFault, bonOk,
                   bonErr, driverOps, running>>

\* final check: const okFile = this.findResponseFile(bonOkPath, filename) and the
\* decision that follows (lines 238-277)
FinalOk(i) ==
    /\ running = i
    /\ call[i].pc = "final_ok"
    /\ LET okFile  == findResponseFile(Directory("BonOK"), call[i].filename)
           outcome == FinalOutcome(call[i].errFile, okFile)
           seen    == [Io(hist[i]) EXCEPT !.okSeen = Present(bonOk, call[i].filename),
                                          !.finalProbes = @ + 1,
                                          !.matchSeen = @ \/ Present(bonOk, call[i].filename),
                                          !.missedByFault =
                                              @ \/ (Present(bonOk, call[i].filename)
                                                    /\ ~okFile.some)]
           after   == Return(Settle(call[i], "SUCCEEDED", SuccessResult(call[i].filename)))
       IN  IF outcome = "FAILED"
           THEN /\ call' = [call EXCEPT ![i] = [@ EXCEPT !.okFile = okFile, !.pc = "final_read"]]
                /\ hist' = [hist EXCEPT ![i] = seen]
                /\ UNCHANGED running
           ELSE IF outcome = "SUCCEEDED"
           THEN /\ call' = [call EXCEPT ![i] = [after EXCEPT !.okFile = okFile]]
                /\ hist' = [hist EXCEPT ![i] = Emitted(seen, after, call[i].filename)]
                /\ running' = 0
           ELSE /\ call' = [call EXCEPT ![i] = [@ EXCEPT !.okFile = okFile, !.pc = "final_list_ok"]]
                /\ hist' = [hist EXCEPT ![i] = seen]
                /\ UNCHANGED running
    /\ UNCHANGED <<now, responseTimeout, bridgeMode, applied, bon, req, dirFault, bonOk,
                   bonErr, driverOps>>

\* error file found at the deadline: read, parse, resolve failure (lines 240-263)
FinalRead(i) ==
    /\ running = i
    /\ call[i].pc = "final_read"
    /\ LET errorContent == readFileSafe(bonErr, call[i].errFile.val)
           errorMessage == ErrorMessageTable[errorContent]
           after == Return(Settle(call[i], "FAILED",
                                  FailureResult(call[i].filename, errorMessage)))
       IN  /\ call' = [call EXCEPT ![i] = after]
           /\ hist' = [hist EXCEPT ![i] =
                          [Emitted(Io(@), after, call[i].filename)
                               EXCEPT !.content = IF hist[i].emits = 0 THEN errorContent ELSE @]]
    /\ running' = 0
    /\ UNCHANGED <<now, responseTimeout, bridgeMode, applied, bon, req, dirFault, bonOk,
                   bonErr, driverOps>>

\* nothing found: okDirContents: this.listDirectoryContents(bonOkPath)   (line 286)
FinalListOk(i) ==
    /\ running = i
    /\ call[i].pc = "final_list_ok"
    /\ call' = [call EXCEPT ![i] = [@ EXCEPT !.pc = "final_list_err"]]
    /\ hist' = [hist EXCEPT ![i] = Io(@)]
    /\ UNCHANGED <<now, responseTimeout, bridgeMode, applied, bon, req, dirFault, bonOk,
                   bonErr, driverOps, running>>

\* errDirContents: this.listDirectoryContents(bonErrPath), then reject (lines 287-295)
FinalListErr(i) ==
    /\ running = i
    /\ call[i].pc = "final_list_err"
    /\ LET after == Return(Settle(call[i], "TIMED_OUT", TimeoutRejection(call[i].filename)))
       IN  /\ call' = [call EXCEPT ![i] = after]
           /\ hist' = [hist EXCEPT ![i] = Emitted(Io(@), after, call[i].filename)]
    /\ running' = 0
    /\ UNCHANGED <<now, responseTimeout, bridgeMode, applied, bon, req, dirFault, bonOk,
                   bonErr, driverOps>>

Callback(i) ==
    \/ TimerFire(i)
    \/ PollErr(i)
    \/ PollRead(i)
    \/ PollOk(i)
    \/ FinalErr(i)
    \/ FinalOk(i)
    \/ FinalRead(i)
    \/ FinalListOk(i)
    \/ FinalListErr(i)

\* the driver delivers response files
DriverDelivers(okNames, errNames, contents, budget) ==
    \/ \E n \in okNames : DriverPlaceOk(n, budget)
    \/ \E n \in errNames, content \in contents : DriverPlaceErr(n, content, budget)

\* the driver delivers response files and may remove an error artifact again
Driver(okNames, errNames, contents, budget) ==
    \/ DriverDelivers(okNames, errNames, contents, budget)
    \/ \E n \in errNames : DriverRemoveErr(n, budget)

(***************************************************************************)
(* handlePrintRequest (print.controller.ts) and the driver consuming the   *)
(* inbox                                                                   *)
(***************************************************************************)

RespondedRetry(q, status) ==
    IF status \in {500, 504} /\ q.waits > 0
    THEN [q EXCEPT !.pc = "new"]
    ELSE [q EXCEPT !.pc = "done", !.status = status, !.responses = @ + 1]

\* res.status(status).json(...): the handler answers and ends
Responded(q, status) ==
    [q EXCEPT !.pc = "done", !.status = status, !.responses = @ + 1]

\* handlePrintRequest up to the await of waitForResponse (lines 24-106); inbox
\* tells what the filesystem does to the inbox during generateReceiptFile
HandlePrintRequest(r, body, inbox) ==
    /\ running = 0
    /\ req[r].pc = "new"
    /\ \A q \in Req : q < r => req[q].pc # "new"
    /\ now <= MaxStart
    /\ LET success   == validatePrintRequest(body)
           generated == generateReceiptFile(body, bridgeMode, inbox, now, bon)
           filename  == generated.filename
           arrived   == [req[r] EXCEPT !.valid = success, !.inbox = inbox,
                                       !.threw = RenderThrows(body),
                                       !.itemsOnly = ItemsOnly(body)]
       IN
         IF ValidationFailed(success)
         THEN /\ req' = [req EXCEPT ![r] = Responded(arrived, 400)]
              /\ UNCHANGED <<now, responseTimeout, bridgeMode, applied, bon, dirFault, bonOk, bonErr,
                             driverOps, running, call, hist>>
         ELSE IF ~FileGenerated(filename)
         THEN /\ bon' = generated.bon
              /\ req' = [req EXCEPT ![r] = Responded(arrived, 500)]
              /\ UNCHANGED <<now, responseTimeout, bridgeMode, applied, dirFault, bonOk, bonErr,
                             driverOps, running, call, hist>>
         ELSE /\ bon' = generated.bon
              /\ \E i \in Inv :
                    /\ StartWaiting(i, filename.val, Some(SentCommand(body, bridgeMode)),
                                    Omitted)
                    /\ req' = [req EXCEPT ![r] =
                                  [arrived EXCEPT
                                     !.pc = "waiting", !.generated = TRUE, !.inv = i,
                                     !.name = filename.val,
                                     !.content = Some(generateFileContent(body, bridgeMode)),
                                     !.writes = @ + 1, !.waits = @ + 1]]

\* handlePrintRequest after the await (lines 108-176): the promise of the
\* invocation is settled and the handler answers
Respond(r) ==
    /\ running = 0
    /\ req[r].pc = "waiting"
    /\ call[req[r].inv].state \in Terminal
    /\ req' = [req EXCEPT ![r] =
                  Responded(@, ResponseStatus(call[req[r].inv].state, bridgeMode))]
    /\ UNCHANGED <<now, responseTimeout, bridgeMode, applied, bon, dirFault, bonOk, bonErr,
                   driverOps, running, call, hist>>

\* the driver takes a command out of the inbox, processes it and moves it to
\* the success-outbox
DriverProcessesOk(n, budget) ==
    /\ driverOps < budget
    /\ bon[n].some
    /\ bon' = [bon EXCEPT ![n] = None]
    /\ bonOk' = bonOk \cup {n}
    /\ driverOps' = driverOps + 1
    /\ UNCHANGED <<now, responseTimeout, bridgeMode, applied, req, dirFault, bonErr,
                   running, call, hist>>

\* the driver takes a command out of the inbox, fails on it and writes the
\* error artifact of that name
DriverProcessesErr(n, content, budget) ==
    /\ driverOps < budget
    /\ bon[n].some
    /\ bon' = [bon EXCEPT ![n] = None]
    /\ bonErr' = [bonErr EXCEPT ![n] = Some(content)]
    /\ driverOps' = driverOps + 1
    /\ UNCHANGED <<now, responseTimeout, bridgeMode, applied, req, dirFault, bonOk,
                   running, call, hist>>

\* one invocation, the driver free to place, overwrite and remove
Next ==
    \/ \E args \in CallArgs : WaitForResponse(1, args[1], args[2], args[3])
    \/ CallerDisconnect(1)
    \/ \E d \in ClockSteps : Advance(d)
    \/ Callback(1)
    \/ Driver(OutboxNames, ErrOutboxNames, ErrContents, MaxDriverOps)

Spec ==
    Init /\ [][Next]_vars

\* two concurrent invocations; the driver delivers one response
NextPair ==
    \/ \E i \in Inv, args \in PairCallArgs : WaitForResponse(i, args[1], args[2], args[3])
    \/ \E i \in Inv : CallerDisconnect(i)
    \/ \E d \in ClockSteps : Advance(d)
    \/ \E i \in Inv : Callback(i)
    \/ DriverDelivers({NameA, NameB}, {NameA, NameB}, {ScannerOfflineContent},
                      MaxPairDriverOps)

SpecPair ==
    Init /\ [][NextPair]_vars

\* the timers of the event loop fire and time passes
Fairness ==
    /\ WF_vars(\E d \in ClockSteps : Advance(d))
    /\ \A i \in Inv : WF_vars(Callback(i))

\* one invocation under fair timers; the driver delivers one response
NextLive ==
    \/ \E args \in LiveCallArgs : WaitForResponse(1, args[1], args[2], args[3])
    \/ CallerDisconnect(1)
    \/ \E d \in ClockSteps : Advance(d)
    \/ Callback(1)
    \/ DriverDelivers(OutboxNames, ErrOutboxNames, ErrContents, MaxLiveDriverOps)

LiveSpec ==
    Init /\ [][NextLive]_vars /\ Fairness

\* one invocation; the driver delivers and the outbox directories fail and recover
NextFault ==
    \/ \E args \in FaultCallArgs : WaitForResponse(1, args[1], args[2], args[3])
    \/ \E d \in ClockSteps : Advance(d)
    \/ Callback(1)
    \/ DriverDelivers({NameA, NameAUpper}, {NameA, NameAUpper}, {ScannerOfflineContent},
                      MaxFaultOps)
    \/ \E d \in Outboxes, fault \in DirFaults : DirectoryFault(d, fault, MaxFaultOps)

SpecFault ==
    Init /\ [][NextFault]_vars

\* the bound on the moves of the driver that names responses as the README does
MaxDocumentedOps ==
    2

\* the arguments of the calls of SpecDocumented
DocumentedCallArgs ==
    {<<NameA, None, Omitted>>, <<NameA, Some(EchoLive), 300>>}

\* one invocation; the driver names its responses as the service expects them
\* or as the README documents them
NextDocumented ==
    \/ \E args \in DocumentedCallArgs : WaitForResponse(1, args[1], args[2], args[3])
    \/ \E d \in ClockSteps : Advance(d)
    \/ Callback(1)
    \/ DriverDelivers({NameA, NameAOK}, {NameA, NameAERR}, {ScannerOfflineContent},
                      MaxDocumentedOps)

SpecDocumented ==
    Init /\ [][NextDocumented]_vars

\* the bound on the moves of the driver in the runs with print requests
MaxRequestDriverOps ==
    2

\* the state after start-up in either bridge mode
InitRequest ==
    InitWith(BridgeModes)

\* two print requests; the driver consumes the inbox and answers
NextRequest ==
    \/ \E r \in Req, body \in Bodies, inbox \in InboxBehaviours :
          HandlePrintRequest(r, body, inbox)
    \/ \E r \in Req : Respond(r)
    \/ \E d \in ClockSteps : Advance(d)
    \/ \E i \in Inv : Callback(i)
    \/ \E n \in InboxNames : DriverProcessesOk(n, MaxRequestDriverOps)
    \/ \E n \in InboxNames : DriverProcessesErr(n, ScannerOfflineContent, MaxRequestDriverOps)

SpecRequest ==
    InitRequest /\ [][NextRequest]_vars

\* the moves of the driver in the runs where it echoes the command
MaxEchoDriverOps ==
    1

\* one print request; the driver answers with an error artifact that begins
\* with the command as it was sent, or with another error artifact, or with OK
NextEcho ==
    \/ \E body \in Bodies, inbox \in InboxBehaviours : HandlePrintRequest(1, body, inbox)
    \/ Respond(1)
    \/ \E d \in ClockSteps : Advance(d)
    \/ Callback(1)
    \/ \E n \in InboxNames : DriverProcessesOk(n, MaxEchoDriverOps)
    \/ \E n \in InboxNames, content \in EchoContents \cup {ScannerOfflineContent} :
          DriverProcessesErr(n, content, MaxEchoDriverOps)

SpecEcho ==
    InitRequest /\ [][NextEcho]_vars

(***************************************************************************)
(* handleZReportRequest (z-report.controller.ts, the later of the two      *)
(* definitions in the file)                                                *)
(***************************************************************************)

\* const zReportTimeout = 30000   (z-report.controller.ts line 106)
zReportTimeout ==
    30000

\* the time up to which a run with Z reports is followed
MaxZReportClock ==
    30400

\* the moves of the driver in a run with Z reports
MaxZReportDriverOps ==
    1

\* generateZReportFile() at time t on the inbox dir: the command file of the
\* report, holding the fixed command, is written like a receipt file; the
\* generated filename, or None for null, and the inbox afterwards
generateZReportFile(inbox, t, dir) ==
    IF inbox = "mkdir_fails" THEN [filename |-> None, bon |-> dir]
    ELSE LET filename == ReceiptFilename(generateTimestamp(t))
             written  == writeFileSafe(dir, filename, EchoZ, inbox)
         IN  IF ~written.ok THEN [filename |-> None, bon |-> written.dir]
             ELSE [filename |-> Some(filename), bon |-> written.dir]

ZReportStatusTimeoutAsSuccess(outcome) ==
    IF outcome = "FAILED" THEN 500 ELSE 200

\* the status of the response to an outcome of waitForResponse
\* (z-report.controller.ts lines 109-151)
ZReportStatus(outcome) ==
    IF outcome = "SUCCEEDED" THEN 200
    ELSE IF outcome = "FAILED" THEN 500
    ELSE 504

\* handleZReportRequest up to the await of waitForResponse (lines 83-107)
HandleZReportRequest(r, inbox) ==
    /\ running = 0
    /\ req[r].pc = "new"
    /\ now <= MaxStart
    /\ LET generated == generateZReportFile(inbox, now, bon)
           filename  == generated.filename
           arrived   == [req[r] EXCEPT !.valid = TRUE, !.inbox = inbox]
       IN
         IF ~FileGenerated(filename)
         THEN /\ bon' = generated.bon
              /\ req' = [req EXCEPT ![r] = Responded(arrived, 500)]
              /\ UNCHANGED <<now, responseTimeout, bridgeMode, applied, dirFault, bonOk, bonErr,
                             driverOps, running, call, hist>>
         ELSE /\ bon' = generated.bon
              /\ \E i \in Inv :
                    /\ StartWaiting(i, filename.val, Some(EchoZ), zReportTimeout)
                    /\ req' = [req EXCEPT ![r] =
                                  [arrived EXCEPT
                                     !.pc = "waiting", !.generated = TRUE, !.inv = i,
                                     !.name = filename.val, !.content = Some(EchoZ),
                                     !.writes = @ + 1, !.waits = @ + 1]]

\* handleZReportRequest after the await (lines 109-151): the promise of the
\* invocation is settled and the handler answers
RespondZReport(r) ==
    /\ running = 0
    /\ req[r].pc = "waiting"
    /\ call[req[r].inv].state \in Terminal
    /\ req' = [req EXCEPT ![r] = Responded(@, ZReportStatus(call[req[r].inv].state))]
    /\ UNCHANGED <<now, responseTimeout, bridgeMode, applied, bon, dirFault, bonOk, bonErr,
                   driverOps, running, call, hist>>

\* one Z report request; the driver consumes the inbox and answers
NextZReport ==
    \/ \E inbox \in InboxBehaviours : HandleZReportRequest(1, inbox)
    \/ RespondZReport(1)
    \/ \E d \in ClockSteps : AdvanceWithin(d, MaxZReportClock)
    \/ Callback(1)
    \/ \E n \in InboxNames : DriverProcessesOk(n, MaxZReportDriverOps)
    \/ \E n \in InboxNames, content \in {ScannerOfflineContent, LooseContent} :
          DriverProcessesErr(n, content, MaxZReportDriverOps)

SpecZReport ==
    Init /\ [][NextZReport]_vars

(***************************************************************************)
(* generateFileContent applied on its own                                  *)
(***************************************************************************)

\* Number.prototype.toString() of the number written as the decimal literal:
\* the fraction loses its trailing zeros, and the point when nothing follows it
RECURSIVE StripFraction(_)
StripFraction(s) ==
    IF s[Len(s)] = "0" THEN StripFraction(SubSeq(s, 1, Len(s) - 1))
    ELSE IF s[Len(s)] = "." THEN SubSeq(s, 1, Len(s) - 1)
    ELSE s

\* price.toString() of the price given as literal in the body of the request
NumberToString(literal) ==
    IF includes(literal, <<".">>) THEN StripFraction(literal) ELSE literal

\* the product names of the rendered transactions
RenderNames ==
    {<<"C", "o", "f", "f", "e", "e">>, <<"O", "r", "a", " ", "d", "e", " ", "j", "o", "a", "c", "a">>}

\* their durations
RenderDurations ==
    {<<>>, <<"1", "h">>, <<"1", "h", " ", "1", "5", "m">>}

\* their prices, as written in the body of the request
PriceLiterals ==
    {<<"5", ".", "0", "0">>, <<"5">>, <<"7", ".", "5">>, <<"2", "2", ".", "5", "0">>, <<"0", ".", "1", "0">>,
     <<"1", "2", "5", "0">>}

\* the values of ECR_BRIDGE_FISCAL_CODE
FiscalCodes ==
    {None, Some(<<"R", "O", "1", "2", "3">>)}

\* the transaction of a validated body
RenderData(name, duration, literal, payment) ==
    [productName |-> Some(name), duration |-> Some(duration),
     price |-> Some([sign |-> 1, finite |-> TRUE, text |-> NumberToString(literal)]),
     items |-> None, paymentType |-> payment]

\* generateFileContent(data, mode) is applied to a transaction
Render(name, duration, literal, payment, mode, fiscalCode) ==
    /\ applied.fn = "none"
    /\ applied' = [fn |-> "render", name |-> name, duration |-> duration,
                   literal |-> literal, payment |-> payment, mode |-> mode,
                   fiscalCode |-> fiscalCode,
                   content |-> generateFileContentWith(
                                   RenderData(name, duration, literal, payment),
                                   mode, fiscalCode)]
    /\ UNCHANGED served

NextRender ==
    \E name \in RenderNames, duration \in RenderDurations, literal \in PriceLiterals,
       payment \in {Cash, Card}, mode \in BridgeModes, fiscalCode \in FiscalCodes :
        Render(name, duration, literal, payment, mode, fiscalCode)

SpecRender ==
    Init /\ [][NextRender]_vars


(***************************************************************************)
(* validatePrintRequest applied on its own                                 *)
(***************************************************************************)

\* numbers a body can carry as a price: positive, zero, negative, and the
\* Infinity that JSON.parse makes of 1e999
PriceValues ==
    {[sign |-> 1, finite |-> TRUE, text |-> <<"5">>],
     [sign |-> 0, finite |-> TRUE, text |-> <<"0">>],
     [sign |-> 0 - 1, finite |-> TRUE, text |-> <<"-", "5">>],
     [sign |-> 1, finite |-> FALSE, text |-> <<"I", "n", "f", "i", "n", "i", "t", "y">>]}

\* an item of the items format with the given price
ItemOf(price) ==
    [name |-> <<"T", "e", "a">>, quantity |-> 1, price |-> price]

\* the item lists of the validated bodies: absent, empty, one good item, a good
\* item followed by one with a bad price
ItemLists ==
    {None, Some(<<>>), Some(<<ItemOf([sign |-> 1, finite |-> TRUE, text |-> <<"5">>])>>)}
        \cup {Some(<<ItemOf([sign |-> 1, finite |-> TRUE, text |-> <<"5">>]), ItemOf(price)>>) :
                price \in PriceValues}

\* the payment types of the validated bodies
PaymentTypes ==
    {Cash, Card, <<"V", "O", "U", "C", "H", "E", "R">>}

\* the bodies validatePrintRequest is applied to
ValidatedBodies ==
    [productName : {None, Some(<<>>), Some(<<"T", "e", "a">>)},
     duration : {None, Some(<<>>), Some(<<"1", "h">>)},
     price : {None} \cup {Some(price) : price \in PriceValues},
     items : ItemLists,
     paymentType : PaymentTypes]

\* validatePrintRequest(data) is applied to a body
Validate(body) ==
    /\ applied.fn = "none"
    /\ applied' = [fn |-> "validate", body |-> body, success |-> validatePrintRequest(body)]
    /\ UNCHANGED served

NextValidate ==
    \E body \in ValidatedBodies : Validate(body)

SpecValidate ==
    Init /\ [][NextValidate]_vars


(***************************************************************************)
(* parseErrorFile applied on its own                                       *)
(***************************************************************************)

\* the command echoed at the head of an error file
CommandLine ==
    <<"S", ",", "1", ",", "_", "_", "_", "_", "_", "_", ",", "_", ",", "_", "_", ";", "C", "o", "f", "f", "e", "e", ";", "5", ".", "0", "0">>

\* lines with the marker of the execution log
MarkerLine ==
    <<"-", "-", "-", " ", "E", "x", "e", "c", "u", "t", "i", "o", "n", " ", "L", "o", "g", " ", "-", "-", "-">>

MarkerLineLower ==
    <<"e", "x", "e", "c", "u", "t", "i", "o", "n", " ", "l", "o", "g", ":">>

SeparatorLine ==
    <<"-", "-", "-", "-", "-">>

BlankLine ==
    <<" ", " ">>

\* well-formatted ERROR lines: the one of the documentation, and one with
\* two-digit hour, PM, wider spacing and a padded message
StrictLine ==
    <<"1", "1", "/", "1", "3", "/", "2", "0", "2", "5", " ", "1", ":", "5", "3", ":", "3", "4", " ", "A", "M", " ", "-", " ", "E", "R", "R", "O", "R", ":", " ", "X">>

StrictLineWide ==
    <<"1", "/", "2", "/", "2", "0", "2", "5", " ", "1", "0", ":", "0", "5", ":", "0", "9", " ", "P", "M", " ", " ", "-", " ", " ", "e", "r", "r", "o", "r", ":", " ", " ", " ", "P", "a", "p", "e", "r", " ", "o", "u", "t", " ", " ">>

\* ERROR fragments without a timestamp, in three letter cases
LooseLine ==
    <<"E", "R", "R", "O", "R", ":", " ", "A">>

LooseLineLower ==
    <<"w", "a", "r", "n", " ", "e", "r", "r", "o", "r", ":", " ", "b">>

LooseLineMixed ==
    <<"E", "r", "r", "o", "r", ":", " ", "C">>

\* a timestamped line that reports no error
InfoLine ==
    <<"1", "/", "2", "/", "2", "0", "2", "5", " ", "1", ":", "0", "0", ":", "0", "0", " ", "A", "M", " ", "-", " ", "I", "N", "F", "O", ":", " ", "o", "k">>

\* a command line with whitespace at both ends
IndentedLine ==
    <<" ", " ", "Z", ";", "1", " ", " ">>

\* what precedes the marker
Prefixes ==
    {<<>>, <<CommandLine>>, <<CommandLine, SeparatorLine>>, <<StrictLine>>,
     <<LooseLine, CommandLine>>, <<BlankLine, IndentedLine>>}

\* the marker line, if any
Markers ==
    {None, Some(MarkerLine), Some(MarkerLineLower)}

TailLines ==
    {SeparatorLine, BlankLine, StrictLine, StrictLineWide, LooseLine, LooseLineLower,
     LooseLineMixed, InfoLine}

\* what follows the marker: up to two lines of any kind, or three lines of
\* which the second is well-formatted
Tails ==
    {<<>>} \cup {<<a>> : a \in TailLines} \cup {<<a, b>> : a, b \in TailLines}
        \cup {<<a, b, c>> : a \in {SeparatorLine, LooseLine, LooseLineMixed},
                            b \in {StrictLine, StrictLineWide},
                            c \in {StrictLine, StrictLineWide, LooseLineLower}}

\* the text of an error file with the given lines
ErrorFileText(prefix, marker, tail) ==
    join(prefix \o (IF marker.some THEN <<marker.val>> ELSE <<>>) \o tail, <<"\n">>)

\* parseErrorFile(errorContent) is applied to the text of an error file
Parse(prefix, marker, tail) ==
    /\ applied.fn = "none"
    /\ applied' = [fn |-> "parse", prefix |-> prefix, marker |-> marker, tail |-> tail,
                   content |-> ErrorFileText(prefix, marker, tail),
                   parsed |-> parseErrorFile(ErrorFileText(prefix, marker, tail))]
    /\ UNCHANGED served

NextParse ==
    \E prefix \in Prefixes, marker \in Markers, tail \in Tails : Parse(prefix, marker, tail)

SpecParse ==
    Init /\ [][NextParse]_vars


(***************************************************************************)
(* Properties                                                              *)
(***************************************************************************)

UnknownErrorShort ==
    <<"U", "n", "k", "n", "o", "w", "n", " ", "e", "r", "r", "o", "r">>

\* the timeout T an invocation was asked to use
RequestedTimeout(i) ==
    IF hist[i].timeoutArg = Omitted THEN responseTimeout ELSE hist[i].timeoutArg

\* the promise is settled the way the correlator state says
ResultAgrees(c) ==
    /\ c.state = "SUCCEEDED" => c.result.kind = "resolve" /\ c.result.success
    /\ c.state = "FAILED" => c.result.kind = "resolve" /\ ~c.result.success
    /\ c.state = "TIMED_OUT" => c.result.kind = "reject"
    /\ c.state \notin Terminal => c.result.kind = "none"

\* C1: every invocation emits at most one outcome, it is in a terminal state
\* exactly when it has emitted one (a resolved success, a resolved failure or
\* a rejected timeout), and once it has left WAITING neither its state nor
\* its result changes and no later timer tick emits again.
C1_SettledOnce ==
    [][\A i \in Inv :
          /\ hist'[i].emits <= 1
          /\ (call'[i].state \in Terminal) <=> (hist'[i].emits = 1)
          /\ ResultAgrees(call'[i])
          /\ call[i].state \in Terminal =>
                 /\ call'[i].state = call[i].state
                 /\ call'[i].result = call[i].result
                 /\ hist'[i].emits = hist[i].emits
                 /\ hist'[i].ticks = hist[i].ticks]_vars

\* an outcome was emitted and the time of the next tick has passed
C1_Witness ==
    /\ call[1].state \in Terminal
    /\ hist[1].emits = 1
    /\ now >= hist[1].resolvedAt + PollInterval

\* C2 as stated: whenever the promise is resolved while matching files are in
\* both outboxes, the outcome is FAILED.
C2_Original ==
    \A i \in Inv :
        (hist[i].bothAtEmit /\ call[i].result.kind = "resolve") => call[i].state = "FAILED"

\* C2 amended: whenever the error-outbox probe of the resolving tick finds a
\* matching file, in particular whenever matching files are in both outboxes
\* at the moment of that probe, the outcome is FAILED and never SUCCEEDED, on
\* polling ticks and on the final deadline probe alike.
C2_ErrorPriority ==
    \A i \in Inv :
        /\ (call[i].state \in Terminal /\ hist[i].errSeen) => call[i].state = "FAILED"
        /\ call[i].state = "SUCCEEDED" => (~hist[i].errSeen /\ hist[i].okSeen)

\* both artifacts were there at the error probe of a polling tick: FAILED
C2_Witness ==
    /\ call[1].state = "FAILED"
    /\ hist[1].errSeen
    /\ hist[1].okAtErrProbe
    /\ ~hist[1].viaFinal

\* C3: an invocation none of whose probes, the final deadline probes
\* included, met a matching file in the probed outbox ends in TIMED_OUT, by a
\* rejection, never in SUCCEEDED or FAILED.
C3_NothingFoundTimesOut ==
    \A i \in Inv :
        (call[i].state \in Terminal /\ ~hist[i].matchSeen) =>
            (call[i].state = "TIMED_OUT" /\ call[i].result.kind = "reject")

\* timed out after polling, although the driver put files of other names there
C3_Witness ==
    /\ call[1].state = "TIMED_OUT"
    /\ ~hist[1].matchSeen
    /\ hist[1].ticks >= 2
    /\ NameB \in bonOk

\* C4: the final branch is taken at the first tick with elapsed >= timeout and
\* at no earlier one, it probes both outboxes, and its outcome is FAILED if
\* the final error probe met a matching file, else SUCCEEDED if the final
\* success probe met one, else TIMED_OUT.
C4_FinalProbe ==
    \A i \in Inv :
        /\ call[i].pc \in {"poll_err", "poll_read", "poll_ok"} =>
               now - call[i].startTime < call[i].timeout
        /\ call[i].pc \in {"final_err", "final_ok", "final_read",
                           "final_list_ok", "final_list_err"} =>
               /\ now - call[i].startTime >= call[i].timeout
               /\ (hist[i].ticks = 1
                   \/ now - PollInterval - call[i].startTime < call[i].timeout)
        /\ (call[i].state \in Terminal /\ hist[i].viaFinal) =>
               /\ hist[i].finalProbes = 2
               /\ call[i].state = IF hist[i].errSeen THEN "FAILED"
                                  ELSE IF hist[i].okSeen THEN "SUCCEEDED"
                                  ELSE "TIMED_OUT"

\* an error artifact that landed after the last polling tick is found by the
\* final probe
C4_Witness ==
    /\ call[1].state = "FAILED"
    /\ hist[1].viaFinal
    /\ hist[1].ticks >= 2
    /\ hist[1].finalProbes = 2

\* C5: an invocation asked to use timeout T is never still waiting later than
\* one poll interval after T has elapsed, and its outcome, TIMED_OUT when the
\* outboxes stay empty, is emitted by then; T is the invocation's own
\* argument, whatever the default timeout and the other invocation's timeout.
C5_TimeoutBound ==
    \A i \in Inv :
        /\ call[i].state = "WAITING" =>
               now - call[i].startTime <= RequestedTimeout(i) + PollInterval
        /\ call[i].state \in Terminal =>
               hist[i].resolvedAt - call[i].startTime <= RequestedTimeout(i) + PollInterval

\* two invocations with different timeouts both timed out on empty outboxes
C5_Witness ==
    /\ call[1].state = "TIMED_OUT"
    /\ call[2].state = "TIMED_OUT"
    /\ call[1].timeout < call[2].timeout
    /\ hist[1].resolvedAt < hist[2].resolvedAt
    /\ RequestedTimeout(1) # responseTimeout
    /\ bonOk = {}
    /\ ErrNames = {}

\* C6: under fair timers every started invocation reaches a terminal outcome,
\* whatever the driver does and whether or not the caller still listens, and
\* the interval timer is cleared whenever an outcome has been emitted.
C6_Terminates ==
    /\ [](\A i \in Inv : hist[i].emits > 0 => (~call[i].timer /\ ~hist[i].timerAtEmit))
    /\ \A i \in Inv : (call[i].state = "WAITING") ~> (call[i].state \in Terminal)

\* the caller stopped listening and the invocation still ended, timer cleared
C6_Witness ==
    /\ call[1].state \in Terminal
    /\ ~call[1].listening
    /\ ~call[1].timer

\* C7: every filesystem access of an invocation precedes its outcome: after
\* the outcome no probe, listing or read is made, no timer tick of the
\* invocation runs, and its callback is not executing.
C7_NoIoAfterOutcome ==
    \A i \in Inv :
        /\ ~hist[i].ioAfterEmit
        /\ hist[i].ticksAfterEmit = 0
        /\ hist[i].emits > 0 => (call[i].pc = "idle" /\ ~call[i].timer /\ running # i)

\* an outcome was emitted after some polling and a tick interval has passed since
C7_Witness ==
    /\ call[1].state \in Terminal
    /\ hist[1].ticks >= 2
    /\ now >= hist[1].resolvedAt + PollInterval
    /\ ~hist[1].ioAfterEmit

\* C8: when the success probe of a polling tick (the error probe of that tick
\* having found nothing) meets a matching file, the invocation resolves
\* SUCCEEDED at that tick with the requested filename, whatever the expected
\* echo is.
C8_SuccessAtTick ==
    \A i \in Inv :
        (hist[i].okSeen /\ ~hist[i].viaFinal) =>
            /\ call[i].state = "SUCCEEDED"
            /\ call[i].result = SuccessResult(call[i].filename)
            /\ hist[i].resolvedAt = hist[i].lastTick

\* success through a file whose name differs in case, an echo being supplied
C8_Witness ==
    /\ call[1].state = "SUCCEEDED"
    /\ ~hist[1].viaFinal
    /\ call[1].expectedCommand = Some(EchoLive)
    /\ NameAUpper \in bonOk
    /\ NameA \notin bonOk

\* the message parseErrorFile decodes from each artifact the driver can write
DecodedMessage ==
    [content \in ErrContents |-> parseErrorFile(content).errorMessage]

\* C9: a FAILED outcome whose error artifact could be read carries as details
\* the decoder's errorMessage for the content read, on polling ticks and on
\* the final probe; the Scanner offline artifact gives 'Scanner offline'.
C9_DetailsAreDecodedMessage ==
    \A i \in Inv :
        (call[i].state = "FAILED" /\ hist[i].content.some) =>
            /\ call[i].result.details = Some(DecodedMessage[hist[i].content.val])
            /\ hist[i].content.val = ScannerOfflineContent =>
                   call[i].result.details.val = ScannerOffline

\* the Scanner offline artifact was found by the final probe
C9_Witness ==
    /\ call[1].state = "FAILED"
    /\ hist[1].viaFinal
    /\ hist[1].content = Some(ScannerOfflineContent)
    /\ call[1].result.details = Some(ScannerOffline)

\* the content read is missing, empty or only whitespace
NoMessageIn(content) ==
    ~content.some \/ trim(content.val) = <<>>

C11_MismatchIsAdvisory ==
    \A i \in Inv :
        /\ (call[i].errFile.some /\ call[i].pc = "idle") =>
               /\ call[i].state = "FAILED"
               /\ hist[i].resolvedAt = hist[i].lastTick
               /\ call[i].result.details = Some(ErrorMessageTable[hist[i].content])
        /\ hist[i].verification \in {"warn", "debug"} => call[i].state = "FAILED"

\* the echo was supplied and differs from the first line of the artifact
C11_Witness ==
    /\ call[1].state = "FAILED"
    /\ call[1].expectedCommand = Some(EchoLive)
    /\ hist[1].verification = "warn"
    /\ hist[1].content = Some(ScannerOfflineContent)
    /\ call[1].result.details = Some(ScannerOffline)

\* the echo was supplied and equals the first line of the artifact
C11_WitnessMatch ==
    /\ call[1].state = "FAILED"
    /\ call[1].expectedCommand = Some(EchoZ)
    /\ hist[1].verification = "debug"

\* the probe of directory d for filename cannot see a matching file: the
\* directory cannot be reached, or it cannot be listed and the exact path misses
HiddenByFault(d, filename) ==
    \/ dirFault[d] = "noaccess"
    \/ dirFault[d] = "nolist" /\ filename \notin Directory(d).files

\* C12: a failure to list or access an outbox directory during a probe is
\* 'not found this cycle': the probe returns absent, a polling tick whose
\* probes fail leaves the invocation WAITING with its timer armed for the next
\* tick, and a final probe that fails counts as nothing found (the deadline
\* then rejects); no failure settles the promise by itself.
C12_ProbeFailureIsAbsent ==
    [][\A i \in Inv :
          /\ (call[i].pc = "poll_err" /\ call'[i].pc # "poll_err"
              /\ HiddenByFault("BonErr", call[i].filename)) =>
                 /\ call'[i].errFile = None
                 /\ call'[i].pc = "poll_ok"
                 /\ call'[i].state = "WAITING" /\ call'[i].timer
          /\ (call[i].pc = "poll_ok" /\ call'[i].pc # "poll_ok"
              /\ HiddenByFault("BonOK", call[i].filename)) =>
                 /\ call'[i].okFile = None
                 /\ call'[i].pc = "idle"
                 /\ call'[i].state = "WAITING" /\ call'[i].timer
                 /\ call'[i].nextTick = now + PollInterval
                 /\ hist'[i].emits = 0
          /\ (call[i].pc = "final_err" /\ call'[i].pc # "final_err"
              /\ HiddenByFault("BonErr", call[i].filename)) =>
                 /\ call'[i].errFile = None
                 /\ call'[i].state = "WAITING"
          /\ (call[i].pc = "final_ok" /\ call'[i].pc # "final_ok"
              /\ HiddenByFault("BonOK", call[i].filename)) =>
                 /\ call'[i].okFile = None
                 /\ call'[i].state = "WAITING"
                 /\ call[i].errFile = None => call'[i].pc = "final_list_ok"]_vars

\* a probe missed a delivered file because its directory failed, the directory
\* recovered, and a later tick found the file
C12_Witness ==
    /\ hist[1].missedByFault
    /\ hist[1].ticks >= 2
    /\ call[1].state = "SUCCEEDED"
    /\ ~hist[1].viaFinal

\* the directory was still failing at the deadline
C12_WitnessDeadline ==
    /\ hist[1].missedByFault
    /\ call[1].state = "TIMED_OUT"

\* what a probe of the files of a listable, reachable directory must return
ProbeResultFits(result, files, filename) ==
    /\ result.some <=> Present(files, filename)
    /\ result.some => /\ result.val \in files
                      /\ toLowerCase(result.val) = toLowerCase(filename)
    /\ filename \in files => result = Some(filename)
    /\ (result.some /\ result.val # filename) => filename \notin files

\* C13: findResponseFile(dir, name) returns a file exactly when dir contains a
\* file whose name equals name ignoring letter case; the exact name wins when
\* it is there, a case variant is returned only when the exact path misses,
\* and a file whose name differs in more than case is never returned.
C13_CaseInsensitiveProbe ==
    [][\A i \in Inv :
          /\ (call[i].pc \in {"poll_err", "final_err"} /\ call'[i].pc # call[i].pc) =>
                 ProbeResultFits(call'[i].errFile, ErrNames, call[i].filename)
          /\ (call[i].pc \in {"poll_ok", "final_ok"} /\ call'[i].pc # call[i].pc) =>
                 ProbeResultFits(call'[i].okFile, bonOk, call[i].filename)]_vars

\* BON_20250101120000.TXT was found by the probe for bon_20250101120000.txt
\* while the file of another transaction was in the directory too
C13_Witness ==
    /\ call[1].filename = NameA
    /\ call[1].okFile = Some(NameAUpper)
    /\ NameB \in bonOk
    /\ call[1].state = "SUCCEEDED"

\* only the file of another transaction was there: nothing was matched
C13_WitnessOther ==
    /\ call[1].filename = NameA
    /\ bonOk = {NameB}
    /\ hist[1].finalProbes = 2
    /\ call[1].okFile = None
    /\ call[1].state = "TIMED_OUT"

\* the artifact of request r could not be persisted
WriteFailure(r) ==
    /\ req[r].pc # "new"
    /\ req[r].valid
    /\ req[r].inbox # "works" \/ req[r].threw

\* invocation i is started by this step
Started(i) ==
    call[i].state = "NOT_STARTED" /\ call'[i].state = "WAITING"

\* C14: when the artifact cannot be persisted (the inbox cannot be created,
\* the write fails or rendering throws) the handler answers with status 500 and
\* starts no waitForResponse; and a waitForResponse is started only in a step
\* after which the artifact of its name, with the rendered content of its
\* request, is in the inbox
C14_NoWaitWithoutArtifact ==
    [][/\ \A r \in Req :
            WriteFailure(r)' =>
                /\ req'[r].pc = "done" /\ req'[r].status = 500 /\ req'[r].responses = 1
                /\ req'[r].waits = 0 /\ req'[r].inv = 0
                /\ \A i \in Inv : Started(i) => req[r].pc # "new"
       /\ \A i \in Inv :
            Started(i) =>
                /\ bon'[call'[i].filename].some
                /\ \E r \in Req :
                      /\ req[r].pc = "new" /\ req'[r].pc = "waiting" /\ req'[r].inv = i
                      /\ req'[r].inbox = "works" /\ ~req'[r].threw
                      /\ bon'[call'[i].filename] = req'[r].content]_vars

\* a write failed, the request was answered with 500 and no invocation started
C14_Witness ==
    /\ req[1].pc = "done" /\ req[1].inbox = "write_fails" /\ req[1].valid /\ ~req[1].threw
    /\ req[1].status = 500
    /\ call[1].state = "NOT_STARTED"

\* rendering threw, and the next request was written and is being waited for
C14_WitnessRender ==
    /\ req[1].pc = "done" /\ req[1].threw /\ req[1].inbox = "works" /\ req[1].status = 500
    /\ req[2].pc = "waiting" /\ call[req[2].inv].state = "WAITING"

\* the inbox could not be created
C14_WitnessMkdir ==
    /\ req[2].pc = "done" /\ req[2].inbox = "mkdir_fails" /\ req[2].valid
    /\ req[2].status = 500

\* request r is handled by this step
Arrives(r) ==
    req[r].pc = "new" /\ req'[r].pc # "new"

\* C15: a print request that fails validation is answered with status 400 in
\* the step that handles it, and that step writes nothing to the inbox, starts
\* no invocation and probes neither outbox; the request never has an invocation
C15_InvalidRejectedFirst ==
    [][\A r \in Req :
          /\ Arrives(r) /\ ~req'[r].valid =>
                /\ req'[r].pc = "done" /\ req'[r].status = 400 /\ req'[r].responses = 1
                /\ bon' = bon /\ call' = call /\ hist' = hist
                /\ bonOk' = bonOk /\ bonErr' = bonErr
          /\ req[r].pc # "new" /\ ~req[r].valid =>
                /\ req'[r] = req[r]
                /\ req[r].inv = 0 /\ req[r].writes = 0 /\ req[r].waits = 0]_vars

\* an invalid request was answered with 400 while the inbox is empty and
\* no invocation has started; the next request is then served
C15_Witness ==
    /\ req[1].pc = "done" /\ ~req[1].valid /\ req[1].status = 400
    /\ req[2].pc = "waiting"
    /\ call[2].state = "NOT_STARTED"
    /\ hist[1].ticks > 0

\* the event loop of the runs with print requests: timers fire, time passes
\* and the handler continues once its promise is settled
LiveRequest ==
    InitRequest /\ [][NextRequest]_vars /\ Fairness /\ \A r \in Req : WF_vars(Respond(r))

\* the response to request r agrees with what happened to it
StatusAgrees(r) ==
    /\ req[r].responses = 1
    /\ ~req[r].valid => req[r].status = 400
    /\ WriteFailure(r) => req[r].status = 500
    /\ req[r].inv # 0 =>
          /\ call[req[r].inv].state = "SUCCEEDED" => req[r].status = 200
          /\ call[req[r].inv].state = "FAILED" => req[r].status = 500
          /\ call[req[r].inv].state = "TIMED_OUT" => req[r].status = 504
    /\ req[r].status = 200 => req[r].inv # 0 /\ call[req[r].inv].state = "SUCCEEDED"
    /\ req[r].status \in {200, 400, 500, 504}

\* C16: every handled print request is answered (under fair timers no handler
\* waits forever), and answered once; a write failure and a FAILED correlation
\* are answered with 500, a timeout with 504, and 200 is answered only for a
\* SUCCEEDED correlation, in live and in test mode
C16_OneResponsePerRequest ==
    /\ [](\A r \in Req :
            /\ req[r].responses <= 1
            /\ req[r].pc = "new" => req[r].responses = 0
            /\ req[r].pc = "waiting" =>
                  req[r].responses = 0 /\ call[req[r].inv].state # "NOT_STARTED"
            /\ req[r].pc = "done" => StatusAgrees(r))
    /\ [][\A r \in Req : req[r].pc # "new" => req'[r].pc # "new"]_vars
    /\ <>[](\A r \in Req : req[r].pc # "waiting")

\* in test mode one request timed out and got 504, the other failed and got 500
C16_Witness ==
    /\ bridgeMode = "test"
    /\ \E r \in Req : req[r].pc = "done" /\ req[r].status = 504
    /\ \E r \in Req : req[r].pc = "done" /\ req[r].status = 500 /\ req[r].inv # 0

\* in live mode one request succeeded and the other timed out
C16_WitnessLive ==
    /\ bridgeMode = "live"
    /\ \E r \in Req : req[r].pc = "done" /\ req[r].status = 200
    /\ \E r \in Req : req[r].pc = "done" /\ req[r].status = 504

\* C17: for one request at most one artifact is written and at most one
\* waitForResponse is started; a waiting handler only goes on to answer, and
\* once the request is answered, whatever the outcome, its handler does nothing
\* more: the request, its invocation and its counters stay as they are, and the
\* inbox changes only by the other request or the driver
C17_NoRetries ==
    [][\A r \in Req :
          /\ req'[r].writes <= 1 /\ req'[r].waits <= 1
          /\ req[r].pc = "waiting" =>
                /\ req'[r].inv = req[r].inv
                /\ req'[r].writes = req[r].writes /\ req'[r].waits = req[r].waits
                /\ req'[r].pc \in {"waiting", "done"}
          /\ req[r].pc = "done" =>
                /\ req'[r] = req[r]
                /\ req[r].inv # 0 =>
                      /\ call'[req[r].inv] = call[req[r].inv]
                      /\ hist'[req[r].inv] = hist[req[r].inv]
                /\ bon' # bon =>
                      \/ driverOps' # driverOps
                      \/ \E q \in Req \ {r} : Arrives(q)]_vars

\* a request failed and another timed out; each wrote once and waited once
C17_Witness ==
    /\ req[1].pc = "done" /\ req[1].status = 500 /\ req[1].writes = 1 /\ req[1].waits = 1
    /\ req[2].pc = "done" /\ req[2].status = 504 /\ req[2].writes = 1 /\ req[2].waits = 1
    /\ now > hist[req[2].inv].resolvedAt

\* C18: the files of the success-outbox and of the error-outbox and their
\* contents change only in steps of the driver: no step of handlePrintRequest,
\* generateReceiptFile, waitForResponse or its interval callback changes them
C18_OutboxesOnlyByDriver ==
    [][driverOps' = driverOps => (bonOk' = bonOk /\ bonErr' = bonErr)]_vars

\* both outboxes hold a file while the second request has been written,
\* its invocation started, and the first invocation has read the error artifact
C18_Witness ==
    /\ bonOk # {} /\ ErrNames # {}
    /\ req[2].pc = "waiting" /\ req[2].writes = 1
    /\ call[req[2].inv].state = "WAITING"
    /\ hist[req[1].inv].content # None

\* invocation i is settled by this step
Settles(i) ==
    call[i].state = "WAITING" /\ call'[i].state \in Terminal

\* the step belongs to the interval callback of invocation j
CallbackStep(j) ==
    running = j \/ running' = j

\* the time from the start of invocation i to now
Elapsed(i) ==
    now - call[i].startTime

\* C19: of two concurrent invocations each is settled by its own callback, at a
\* tick of its own timer counted from its own start and, on a timeout, at its
\* own deadline; SUCCEEDED and FAILED come from a file of its own name, a
\* timeout from its own probes having found none; and a step of the callback of
\* one invocation, its resolution or timeout included, changes nothing of the
\* other: not its state, its timer, its next tick or its result
C19_IndependentInvocations ==
    [][\A i \in Inv :
          /\ \A j \in Inv \ {i} :
                CallbackStep(j) => (call'[i] = call[i] /\ hist'[i] = hist[i])
          /\ Settles(i) =>
                /\ running = i
                /\ Elapsed(i) >= PollInterval /\ Elapsed(i) % PollInterval = 0
                /\ call'[i].state = "SUCCEEDED" =>
                      /\ Present(bonOk, call[i].filename)
                      /\ toLowerCase(call'[i].okFile.val) = toLowerCase(call[i].filename)
                /\ call'[i].state = "FAILED" =>
                      /\ call[i].errFile.some
                      /\ toLowerCase(call[i].errFile.val) = toLowerCase(call[i].filename)
                /\ call'[i].state = "TIMED_OUT" =>
                      /\ call[i].errFile = None /\ call'[i].okFile = None
                      /\ Elapsed(i) >= call[i].timeout
                      /\ Elapsed(i) - PollInterval < call[i].timeout
                            \/ Elapsed(i) = PollInterval
          /\ (call[i].timer /\ ~call'[i].timer) => CallbackStep(i)]_vars

\* two invocations with different names and different starts: the first
\* succeeded, the second went on polling and timed out later although the file
\* of the first was in the success-outbox
C19_Witness ==
    /\ call[1].filename = NameA /\ call[2].filename = NameB
    /\ call[1].startTime # call[2].startTime
    /\ call[1].state = "SUCCEEDED" /\ call[2].state = "TIMED_OUT"
    /\ NameA \in bonOk
    /\ hist[2].resolvedAt > hist[1].resolvedAt

\* the first timed out while the second, started later, failed on its own file
C19_WitnessFailed ==
    /\ call[1].filename = NameA /\ call[2].filename = NameB
    /\ call[1].state = "TIMED_OUT" /\ call[2].state = "FAILED"
    /\ call[2].startTime > call[1].startTime

\* C20, as stated: an artifact that is in the inbox is not overwritten or
\* modified by a step of the core; its content changes only when the driver
\* takes it
C20_ArtifactImmutable ==
    [][\A n \in InboxNames :
          (bon[n].some /\ driverOps' = driverOps) => bon'[n] = bon[n]]_vars

\* what holds instead: the core changes an artifact of the inbox only in the
\* write of a request handled in the clock second of the request that wrote
\* it, and both requests then wait for the same name
C20_OverwriteOnlyWithinSecond ==
    [][\A n \in InboxNames :
          (bon[n].some /\ driverOps' = driverOps /\ bon'[n] # bon[n]) =>
              /\ Arrives(2) /\ req'[2].name = n /\ req[1].name = n
              /\ bon'[n] = req'[2].content
              /\ generateTimestamp(now) = generateTimestamp(call[req[1].inv].startTime)]_vars

\* two requests were handled in one clock second: the artifact of the first
\* was replaced by that of the second while it was still in the inbox
C20_Witness ==
    /\ req[1].pc = "waiting" /\ req[2].pc = "waiting"
    /\ req[1].name = req[2].name
    /\ req[1].content # req[2].content
    /\ bon[req[1].name] = req[2].content
    /\ driverOps = 0

\* C21, as stated: the expected command that handlePrintRequest passes to
\* waitForResponse is the content that generateReceiptFile wrote to the inbox
C21_EchoIsArtifact ==
    \A r \in Req :
        req[r].generated => call[req[r].inv].expectedCommand = req[r].content

\* what holds instead: in test mode the two texts are equal; in live mode they
\* have the same length and differ in the payment code, and in nothing else
C21_EchoDiffersInPayCode ==
    \A r \in Req :
        req[r].generated =>
            LET echo     == call[req[r].inv].expectedCommand.val
                artifact == req[r].content.val
            IN  /\ Len(echo) = Len(artifact)
                /\ bridgeMode = "test" => echo = artifact
                /\ bridgeMode = "live" =>
                      /\ \A k \in 1..Len(echo) : k # Len(echo) - 2 => echo[k] = artifact[k]
                      /\ <<artifact[Len(artifact) - 2], echo[Len(echo) - 2]>>
                             \in {<<"1", "0">>, <<"2", "1">>}

\* a CASH receipt was written in live mode with the line P;1;0 while the
\* invocation was given a command ending in P;0;0
C21_Witness ==
    /\ bridgeMode = "live"
    /\ req[1].generated
    /\ req[1].content.val[Len(req[1].content.val) - 2] = "1"
    /\ call[req[1].inv].expectedCommand.val[Len(req[1].content.val) - 2] = "0"
    /\ bon[req[1].name] = req[1].content

\* the lines of the artifact rendered by the application of generateFileContent
RenderedLines ==
    splitLines(applied.content)

\* C22, as stated: in live mode the third line of the artifact is P;0;0 for a
\* CASH transaction and P;1;0 for a CARD transaction
C22_PayCodesAsDocumented ==
    (applied.fn = "render" /\ applied.mode = "live") =>
        /\ Len(RenderedLines) = 3
        /\ RenderedLines[3] = IF applied.payment = Cash THEN <<"P", ";", "0", ";", "0">>
                              ELSE <<"P", ";", "1", ";", "0">>

\* what holds instead: the third line is P;1;0 for CASH and P;2;0 for CARD
C22_PayCodesAsWritten ==
    (applied.fn = "render" /\ applied.mode = "live") =>
        /\ Len(RenderedLines) = 3
        /\ RenderedLines[3] = IF applied.payment = Cash THEN <<"P", ";", "1", ";", "0">>
                              ELSE <<"P", ";", "2", ";", "0">>

\* a CARD transaction was rendered in live mode with the payment line P;2;0
C22_Witness ==
    /\ applied.fn = "render" /\ applied.mode = "live" /\ applied.payment = Card
    /\ RenderedLines[3] = <<"P", ";", "2", ";", "0">>

\* the scenario of the spec: item Coffee, duration empty, price 5.00, CASH, live
\* mode, no fiscal code
IsScenario ==
    /\ applied.fn = "render" /\ applied.mode = "live"
    /\ applied.name = <<"C", "o", "f", "f", "e", "e">> /\ applied.duration = <<>>
    /\ applied.literal = <<"5", ".", "0", "0">> /\ applied.payment = Cash
    /\ applied.fiscalCode = None

\* the code of a payment kind in the payment line
PayCode(payment) ==
    IF payment = Cash THEN <<"1">> ELSE <<"2">>

\* a live artifact is three lines: FISCAL, or FISCAL;<code> when a fiscal code
\* is configured; I;<name> (<duration>);1;<price>;1 with price being the text
\* of the price; and P;<payCode>;0
LiveArtifactLines(price) ==
    /\ Len(RenderedLines) = 3
    /\ RenderedLines[1] = IF applied.fiscalCode.some
                          THEN <<"F", "I", "S", "C", "A", "L", ";">> \o applied.fiscalCode.val
                          ELSE <<"F", "I", "S", "C", "A", "L">>
    /\ RenderedLines[2] = <<"I", ";">> \o applied.name \o <<" ", "(">> \o applied.duration
                              \o <<")", ";", "1", ";">> \o price \o <<";", "1">>
    /\ ~includes(price, <<",">>)
    /\ RenderedLines[3] = <<"P", ";">> \o PayCode(applied.payment) \o <<";", "0">>

C23_WitnessFiscalCode ==
    /\ applied.fn = "render" /\ applied.mode = "live"
    /\ applied.fiscalCode.some
    /\ applied.literal = <<"2", "2", ".", "5", "0">>
    /\ RenderedLines[1] = <<"F", "I", "S", "C", "A", "L", ";", "R", "O", "1", "2", "3">>

\* the body carries the legacy triple productName, duration, price
LegacyTriple(body) ==
    body.productName.some /\ body.duration.some /\ body.price.some

\* the body carries a non-empty item list
ItemListNonEmpty(body) ==
    body.items.some /\ Len(body.items.val) > 0

\* the payment kind is CASH or CARD and every price of the body is finite and
\* strictly positive
PaymentAndPricesFit(body) ==
    /\ body.paymentType \in {Cash, Card}
    /\ body.price.some => (body.price.val.sign = 1 /\ body.price.val.finite)
    /\ body.items.some =>
          \A k \in 1..Len(body.items.val) :
              body.items.val[k].price.sign = 1 /\ body.items.val[k].price.finite

\* C24, as stated: a body is accepted only if exactly one of legacy triple and
\* non-empty item list is present, the payment kind is CASH or CARD and every
\* price is finite and strictly positive; a body with both, or with neither,
\* is rejected
C24_ExactlyOneFormat ==
    (applied.fn = "validate" /\ applied.success) =>
        /\ LegacyTriple(applied.body) # ItemListNonEmpty(applied.body)
        /\ PaymentAndPricesFit(applied.body)

\* what holds instead: a body is accepted only if at least one of the two is
\* present, and with neither it is rejected
C24_AtLeastOneFormat ==
    (applied.fn = "validate" /\ applied.success) =>
        /\ LegacyTriple(applied.body) \/ ItemListNonEmpty(applied.body)
        /\ PaymentAndPricesFit(applied.body)

\* a body with the legacy triple and a non-empty item list was accepted
C24_Witness ==
    /\ applied.fn = "validate" /\ applied.success
    /\ LegacyTriple(applied.body) /\ ItemListNonEmpty(applied.body)

\* the lines of tail from the first that is neither a separator nor blank
RECURSIVE SkipSeparators(_)
SkipSeparators(tail) ==
    IF tail = <<>> THEN <<>>
    ELSE IF tail[1] \in {SeparatorLine, BlankLine} THEN SkipSeparators(Tail(tail))
    ELSE tail

\* the timestamp text and the trimmed message of the well-formatted lines
TimestampOf(line) ==
    IF line = StrictLine THEN <<"1", "1", "/", "1", "3", "/", "2", "0", "2", "5", " ", "1", ":", "5", "3", ":", "3", "4", " ", "A", "M">>
    ELSE <<"1", "/", "2", "/", "2", "0", "2", "5", " ", "1", "0", ":", "0", "5", ":", "0", "9", " ", "P", "M">>

MessageOf(line) ==
    IF line = StrictLine THEN <<"X">>
    ELSE <<"P", "a", "p", "e", "r", " ", "o", "u", "t">>

WellFormatted ==
    {StrictLine, StrictLineWide}

\* an error file was parsed in which the first line after the marker that is
\* neither separator nor blank is well-formatted
StrictFirst ==
    /\ applied.fn = "parse" /\ applied.marker.some
    /\ SkipSeparators(applied.tail) # <<>>
    /\ SkipSeparators(applied.tail)[1] \in WellFormatted

\* C25: when the marker line is followed, after separator and blank lines, by
\* a line <M>/<D>/<YYYY> <H>:<MM>:<SS> <AM|PM> - ERROR: <msg>, parseErrorFile
\* returns the timestamp text of that line and its trimmed message, whatever
\* precedes the marker; 11/13/2025 1:53:34 AM - ERROR: X gives message X and
\* timestamp 11/13/2025 1:53:34 AM
C25_StrictLineDecoded ==
    StrictFirst =>
        /\ applied.parsed.hasTimestamp
        /\ applied.parsed.timestamp = TimestampOf(SkipSeparators(applied.tail)[1])
        /\ applied.parsed.errorMessage = MessageOf(SkipSeparators(applied.tail)[1])
        /\ applied.parsed.rawContent = applied.content

\* a line with PM, wide spacing and a padded message was decoded behind a
\* separator, another well-formatted line standing before the marker
C25_Witness ==
    /\ StrictFirst
    /\ applied.prefix = <<StrictLine>>
    /\ applied.tail = <<SeparatorLine, StrictLineWide>>
    /\ applied.parsed.errorMessage = <<"P", "a", "p", "e", "r", " ", "o", "u", "t">>

\* the example of the claim
C25_WitnessExample ==
    /\ StrictFirst
    /\ applied.prefix = <<CommandLine, SeparatorLine>>
    /\ applied.tail = <<BlankLine, StrictLine>>
    /\ applied.parsed.errorMessage = <<"X">>
    /\ applied.parsed.timestamp = <<"1", "1", "/", "1", "3", "/", "2", "0", "2", "5", " ", "1", ":", "5", "3", ":", "3", "4", " ", "A", "M">>

\* the lines of tail from the first well-formatted one
RECURSIVE FromFirstStrict(_)
FromFirstStrict(tail) ==
    IF tail = <<>> THEN <<>>
    ELSE IF tail[1] \in WellFormatted THEN tail
    ELSE FromFirstStrict(Tail(tail))

\* an error file was parsed whose marker is followed by several well-formatted
\* ERROR lines
SeveralStrict ==
    /\ applied.fn = "parse" /\ applied.marker.some
    /\ Cardinality({k \in 1..Len(applied.tail) : applied.tail[k] \in WellFormatted}) >= 2

\* C26: of several well-formatted ERROR lines after the marker parseErrorFile
\* returns the message and the timestamp of the first; the later ERROR lines
\* and the fragments of loosely formatted ERROR lines before the first
\* well-formatted one are not part of the result
C26_FirstMatchWins ==
    SeveralStrict =>
        /\ applied.parsed.hasTimestamp
        /\ applied.parsed.timestamp = TimestampOf(FromFirstStrict(applied.tail)[1])
        /\ applied.parsed.errorMessage = MessageOf(FromFirstStrict(applied.tail)[1])
        /\ ~includes(applied.parsed.errorMessage, <<";", " ">>)

\* a loose fragment, then two different well-formatted lines: the result is
\* the first of the two
C26_Witness ==
    /\ SeveralStrict
    /\ applied.tail = <<LooseLine, StrictLineWide, StrictLine>>
    /\ applied.parsed.errorMessage = <<"P", "a", "p", "e", "r", " ", "o", "u", "t">>

\* two well-formatted lines directly after the marker
C26_WitnessTwo ==
    /\ SeveralStrict
    /\ applied.tail = <<StrictLine, StrictLineWide>>
    /\ applied.parsed.errorMessage = <<"X">>

\* an error file without a marker line, and not blank, was parsed
NoMarker ==
    /\ applied.fn = "parse" /\ applied.marker = None
    /\ \E k \in 1..Len(applied.content) : applied.content[k] \notin WhiteSpace

\* the text has no whitespace at either end
Trimmed(text) ==
    text # <<>> /\ text[1] \notin WhiteSpace /\ text[Len(text)] \notin WhiteSpace

\* C27: for an error text that is not blank and has no line containing
\* "execution log" in any letter case, parseErrorFile returns the whole text,
\* trimmed, as errorMessage and no timestamp, also when the text has
\* well-formatted ERROR lines
C27_NoMarkerWholeText ==
    NoMarker =>
        /\ ~applied.parsed.hasTimestamp
        /\ applied.parsed.errorMessage = trim(applied.content)
        /\ Trimmed(applied.parsed.errorMessage)
        /\ Trimmed(applied.content) => applied.parsed.errorMessage = applied.content

\* a text of a command line and two well-formatted ERROR lines, without a
\* marker, came back whole and without a timestamp
C27_Witness ==
    /\ NoMarker
    /\ applied.prefix = <<CommandLine>>
    /\ applied.tail = <<StrictLine, StrictLineWide>>
    /\ Len(applied.parsed.errorMessage) = Len(applied.content) - 2
    /\ includes(applied.parsed.errorMessage, StrictLine)
    /\ ~applied.parsed.hasTimestamp


\* an empty or whitespace-only error text was parsed
BlankInput ==
    /\ applied.fn = "parse"
    /\ \A k \in 1..Len(applied.content) : applied.content[k] \in WhiteSpace

\* what parseErrorFile answers for a blank input, but for the message
BlankAnswer ==
    /\ applied.parsed.originalCommand = <<>>
    /\ ~applied.parsed.hasTimestamp
    /\ applied.parsed.rawContent = applied.content

C28_WitnessEmpty ==
    /\ BlankInput
    /\ applied.content = <<>>
    /\ applied.parsed.errorMessage = UnknownErrorLiteral


\* the text after "ERROR:" of the loosely formatted lines
FragmentOf(line) ==
    IF line = LooseLine THEN <<"A">>
    ELSE IF line = LooseLineLower THEN <<"b">>
    ELSE <<"C">>

\* the loosely formatted lines: ERROR:, error: and Error:
LooseAnyCase ==
    {LooseLine, LooseLineLower, LooseLineMixed}

\* those of them that hold ERROR: or error: letter for letter
LooseExactCase ==
    {LooseLine, LooseLineLower}

\* the fragments of the lines of tail that are in kinds, in order
RECURSIVE Fragments(_, _)
Fragments(tail, kinds) ==
    IF tail = <<>> THEN <<>>
    ELSE IF tail[1] \in kinds THEN <<FragmentOf(tail[1])>> \o Fragments(Tail(tail), kinds)
    ELSE Fragments(Tail(tail), kinds)

\* an error file was parsed whose marker is followed by no well-formatted line
\* and by at least one line of kinds
LooseOnly(kinds) ==
    /\ applied.fn = "parse" /\ applied.marker.some
    /\ \A k \in 1..Len(applied.tail) : applied.tail[k] \notin WellFormatted
    /\ \E k \in 1..Len(applied.tail) : applied.tail[k] \in kinds

\* C29: when no line after the marker is well-formatted and some lines hold
\* "ERROR:" in any letter case (ERROR:, error:, Error:), parseErrorFile
\* returns the texts after "ERROR:" of all these lines, in order, joined with
\* "; ", as a non-empty errorMessage without timestamp
C29_AnyCaseCollected ==
    LooseOnly(LooseAnyCase) =>
        /\ ~applied.parsed.hasTimestamp
        /\ applied.parsed.errorMessage # <<>>
        /\ applied.parsed.errorMessage
               = join(Fragments(applied.tail, LooseAnyCase), <<";", " ">>)

\* what holds of the code: the lines holding ERROR: or error: letter for
\* letter are collected and joined, the scan going on after each
C29_ExactCaseCollected ==
    LooseOnly(LooseExactCase) =>
        /\ ~applied.parsed.hasTimestamp
        /\ applied.parsed.errorMessage
               = join(Fragments(applied.tail, LooseExactCase), <<";", " ">>)

\* and a line holding Error: alone is returned whole, as remaining content
C29_MixedCaseNotCollected ==
    /\ LooseOnly({LooseLineMixed})
    /\ \A k \in 1..Len(applied.tail) : applied.tail[k] \in {LooseLineMixed, SeparatorLine}
    => applied.parsed.errorMessage
           = join(SelectSeq(applied.tail, LAMBDA l : l = LooseLineMixed), <<" ">>)

\* the marker was followed by ERROR: A and Error: C, and the message is A
C29_Witness ==
    /\ LooseOnly(LooseAnyCase)
    /\ applied.tail = <<LooseLine, LooseLineMixed>>
    /\ applied.parsed.errorMessage = <<"A">>

\* two fragments were collected and joined
C29_WitnessJoined ==
    /\ LooseOnly(LooseExactCase)
    /\ applied.tail = <<LooseLine, LooseLineLower>>
    /\ applied.parsed.errorMessage = <<"A", ";", " ", "b">>


\* the response names the README gives for a command file bon_{timestamp}.txt
DocumentedOk(filename) ==
    SubSeq(filename, 1, Len(filename) - 3) \o <<"O", "K">>

DocumentedErr(filename) ==
    SubSeq(filename, 1, Len(filename) - 3) \o <<"E", "R", "R">>

\* invocation i looks into the success-outbox, into the error-outbox
ProbesOk(i) ==
    call[i].pc \in {"poll_ok", "final_ok"} /\ call'[i].pc # call[i].pc

ProbesErr(i) ==
    call[i].pc \in {"poll_err", "final_err"} /\ call'[i].pc # call[i].pc

\* C30: a response named bon_{timestamp}.OK in BonOK resolves the wait for
\* bon_{timestamp}.txt as success and a response named bon_{timestamp}.ERR in
\* BonErr resolves it as failure: a look into the folder that holds the
\* response finds it, and a wait does not time out while its response is there
C30_DocumentedNamesResolve ==
    [][\A i \in Inv :
          /\ ProbesOk(i) /\ DocumentedOk(call[i].filename) \in bonOk
                => call'[i].okFile.some
          /\ ProbesOk(i) /\ DocumentedOk(call[i].filename) \in bonOk
                         /\ call[i].state = "WAITING" /\ call[i].pc = "poll_ok"
                => call'[i].state = "SUCCEEDED"
          /\ ProbesErr(i) /\ bonErr[DocumentedErr(call[i].filename)].some
                => call'[i].errFile.some /\ call'[i].pc \in {"poll_read", "final_ok"}]_vars

\* what holds of the code: the file found in an outbox has the name of the
\* command file, .txt included, up to letter case
C30_SameNameFound ==
    \A i \in Inv :
        /\ call[i].okFile.some
              => toLowerCase(call[i].okFile.val) = toLowerCase(call[i].filename)
        /\ call[i].errFile.some
              => toLowerCase(call[i].errFile.val) = toLowerCase(call[i].filename)

\* and a wait is settled as success or failure only when a file of that name
\* is in an outbox: responses named .OK and .ERR leave it to the timeout
C30_DocumentedNamesTimeOut ==
    \A i \in Inv :
        /\ call[i].state \in {"SUCCEEDED", "FAILED"}
        => \E f \in bonOk \cup ErrNames : toLowerCase(f) = toLowerCase(call[i].filename)

\* both documented responses are in their folders, the wait has looked into
\* both folders more than once and has timed out
C30_Witness ==
    /\ call[1].state = "TIMED_OUT"
    /\ call[1].filename = NameA
    /\ bonOk = {NameAOK}
    /\ ErrNames = {NameAERR}
    /\ hist[1].ticks >= 2
    /\ ~hist[1].matchSeen

C31_WitnessFailed ==
    /\ req[1].pc = "done"
    /\ req[1].status = 500
    /\ call[1].state = "FAILED"
    /\ hist[1].verification = "debug"

\* a Z report was answered with 200
C31_WitnessSucceeded ==
    /\ req[1].pc = "done"
    /\ req[1].status = 200
    /\ call[1].state = "SUCCEEDED"

\* the lines of the error file that was parsed
InputLines ==
    applied.prefix \o (IF applied.marker.some THEN <<applied.marker.val>> ELSE <<>>)
        \o applied.tail

\* a line with a character that is not whitespace
NonBlank(line) ==
    \E k \in 1..Len(line) : line[k] \notin WhiteSpace

\* C32: for every input that is not blank, originalCommand is the first
\* non-empty line of the input, trimmed; and in every branch (empty input, no
\* marker, well-formatted line, fragments, remaining content) rawContent is
\* the input unchanged
C32_FirstLineAndRawContent ==
    applied.fn = "parse" =>
        /\ applied.parsed.rawContent = applied.content
        /\ NonBlank(applied.content) =>
              \E k \in 1..Len(InputLines) :
                  /\ NonBlank(InputLines[k])
                  /\ \A j \in 1..(k - 1) : ~NonBlank(InputLines[j])
                  /\ applied.parsed.originalCommand = trim(InputLines[k])
                  /\ Trimmed(applied.parsed.originalCommand)

\* the first line was blank and the second had whitespace at both ends: the
\* command is the second line without it, the raw content has it
C32_Witness ==
    /\ applied.fn = "parse"
    /\ applied.prefix = <<BlankLine, IndentedLine>>
    /\ applied.marker.some
    /\ applied.tail = <<StrictLine>>
    /\ applied.parsed.originalCommand = <<"Z", ";", "1">>
    /\ applied.parsed.rawContent = applied.content
    /\ Len(applied.content) > 40

\* the branch of the remaining content
C32_WitnessRemaining ==
    /\ applied.fn = "parse"
    /\ applied.prefix = <<CommandLine>>
    /\ applied.marker.some
    /\ applied.tail = <<InfoLine>>
    /\ applied.parsed.originalCommand = CommandLine
    /\ applied.parsed.errorMessage = InfoLine
    /\ applied.parsed.rawContent = applied.content

\* the time since invocation i called waitForResponse
ElapsedNow(i) ==
    now - call[i].startTime

\* C33: waitForResponse never settles TIMED_OUT at a tick with elapsed <
\* timeout: before the deadline an invocation leaves WAITING only for FAILED
\* or SUCCEEDED, and a tick that finds nothing leaves it WAITING
C33_NoTimeoutBeforeDeadline ==
    /\ [](\A i \in Inv :
            call[i].state = "TIMED_OUT"
                => hist[i].resolvedAt - call[i].startTime >= call[i].timeout)
    /\ [][\A i \in Inv :
            /\ call[i].state = "WAITING" /\ call'[i].state # "WAITING"
               /\ ElapsedNow(i) < call[i].timeout
                  => call'[i].state \in {"FAILED", "SUCCEEDED"}
            /\ call[i].state = "WAITING" /\ call'[i].state = "TIMED_OUT"
                  => ElapsedNow(i) >= call[i].timeout /\ hist[i].viaFinal
            /\ call[i].state = "WAITING" /\ call[i].pc = "poll_ok"
               /\ ~Present(bonOk, call[i].filename)
                  => call'[i].state = "WAITING" /\ call'[i].timer]_vars

\* an invocation ticked before its deadline, stayed waiting, and timed out
\* at the deadline
C33_Witness ==
    /\ call[1].state = "TIMED_OUT"
    /\ call[1].timeout = 500
    /\ hist[1].ticks = 3
    /\ hist[1].resolvedAt - call[1].startTime = 600

\* an invocation failed before its deadline
C33_WitnessEarlyFailure ==
    /\ call[1].state = "FAILED"
    /\ hist[1].resolvedAt - call[1].startTime < call[1].timeout

\* invocation i is inside its interval callback, or has looked into an outbox
Probing(i) ==
    call[i].pc # "idle" \/ hist[i].finalProbes > 0 \/ hist[i].ticks > 0

\* C34: waitForResponse looks into no outbox on entry: the first look happens
\* one poll interval after the call, so a response that is there when the call
\* starts is reported at the first tick and not earlier; with a timeout of at
\* most one interval the only looks ever made are those of the final check,
\* which can still give FAILED or SUCCEEDED
C34_FirstProbeAfterOneInterval ==
    /\ [](\A i \in Inv :
            /\ Probing(i) => now - call[i].startTime >= PollInterval
            /\ hist[i].emits > 0 => hist[i].resolvedAt - call[i].startTime >= PollInterval
            /\ call[i].state # "NOT_STARTED" /\ call[i].timeout <= PollInterval
                  => /\ call[i].pc \notin {"poll_err", "poll_read", "poll_ok"}
                     /\ hist[i].ticks <= 1
                     /\ hist[i].emits > 0
                           => hist[i].viaFinal
                              /\ hist[i].resolvedAt - call[i].startTime = PollInterval)
    /\ [][\A i \in Inv :
            call[i].state = "WAITING" /\ hist[i].ticks = 1 /\ call'[i].pc # call[i].pc
                => /\ call[i].pc = "poll_err" /\ Present(ErrNames, call[i].filename)
                        => call'[i].pc = "poll_read"
                   /\ call[i].pc = "poll_read"
                        => /\ call'[i].state = "FAILED"
                           /\ hist'[i].resolvedAt = call[i].startTime + PollInterval
                   /\ call[i].pc = "poll_ok" /\ Present(bonOk, call[i].filename)
                        => /\ call'[i].state = "SUCCEEDED"
                           /\ hist'[i].resolvedAt = call[i].startTime + PollInterval
                   /\ call[i].pc = "final_ok" /\ Present(bonOk, call[i].filename)
                      /\ ~call[i].errFile.some
                        => /\ call'[i].state = "SUCCEEDED"
                           /\ hist'[i].resolvedAt = call[i].startTime + PollInterval]_vars

\* the success file was there before the call started at time 100, and the
\* call, with a timeout above one interval, succeeded at its first tick
C34_Witness ==
    /\ call[1].state = "SUCCEEDED"
    /\ call[1].startTime = 100
    /\ call[1].timeout > PollInterval
    /\ hist[1].ticks = 1
    /\ hist[1].resolvedAt = 300
    /\ driverOps = 1
    /\ now = 300

\* with timeout 0 the final check, the only one made, found the error file
C34_WitnessFinalOnly ==
    /\ call[1].state = "FAILED"
    /\ call[1].timeout = 0
    /\ hist[1].viaFinal
    /\ hist[1].ticks = 1

\* with a timeout of one interval the final check found the success file
C34_WitnessFinalSuccess ==
    /\ call[1].state = "SUCCEEDED"
    /\ call[1].timeout = PollInterval
    /\ hist[1].viaFinal

\* what readFileSafe gives for a file that is gone or empty
Unreadable ==
    {None, Some(<<>>)}

\* invocation i reads the error file it has found, and the file is gone or empty
ReadsUnreadable(i) ==
    /\ call[i].pc \in {"poll_read", "final_read"}
    /\ call'[i].pc # call[i].pc
    /\ call[i].state = "WAITING"
    /\ readFileSafe(bonErr, call[i].errFile.val) \in Unreadable

\* C35: when a file of the awaited name is found in the error-outbox but its
\* content cannot be read or is empty, waitForResponse resolves FAILED at that
\* tick with the unknown-error placeholder as details; it does not poll again
\* and never resolves SUCCEEDED, also when a success file appears afterwards
C35_UnreadableErrorStillFails ==
    /\ [][\A i \in Inv :
            /\ ReadsUnreadable(i)
                  => /\ call'[i].state = "FAILED"
                     /\ call'[i].result = FailureResult(call[i].filename, UnknownErrorLiteral)
                     /\ ~call'[i].timer
                     /\ hist'[i].resolvedAt = hist[i].lastTick
            /\ call[i].state = "FAILED"
                  => call'[i].state = "FAILED" /\ call'[i].result = call[i].result]_vars
    /\ [](\A i \in Inv :
            call[i].state = "FAILED" /\ hist[i].content \in Unreadable
                => /\ hist[i].ticksAfterEmit = 0
                   /\ hist[i].emits = 1
                   /\ ~call[i].result.success
                   /\ call[i].result.details = Some(UnknownErrorLiteral))

\* the error file was empty when it was read; the invocation failed with the
\* placeholder, and a success file that came later changed nothing
C35_Witness ==
    /\ call[1].state = "FAILED"
    /\ hist[1].content = Some(<<>>)
    /\ call[1].result.details = Some(UnknownErrorLiteral)
    /\ Present(bonOk, call[1].filename)
    /\ ~hist[1].bothAtEmit
    /\ now >= hist[1].resolvedAt + PollInterval

\* the error file was removed between the probe and the read
C35_WitnessRemoved ==
    /\ call[1].state = "FAILED"
    /\ hist[1].content = None
    /\ hist[1].errSeen
    /\ call[1].result.details = Some(UnknownErrorLiteral)

\* the invocation of print request r
CallOf(r) ==
    call[req[r].inv]

\* print request r has called waitForResponse
Awaited(r) ==
    req[r].pc \in {"waiting", "done"} /\ req[r].generated

\* C36: the expected command of every print request has several lines (three
\* in live mode, six in test mode) and the originalCommand decoded from an
\* error artifact is one trimmed line, so the comparison of waitForResponse
\* never finds them equal: whenever it runs it takes the branch of the
\* mismatch warning, and the outcome is FAILED all the same
C36_EchoNeverMatches ==
    \A r \in Req :
        Awaited(r) =>
            /\ CallOf(r).expectedCommand.some
            /\ Len(splitLines(CallOf(r).expectedCommand.val))
                   = IF bridgeMode = "live" THEN 3 ELSE 6
            /\ hist[req[r].inv].verification # "debug"
            /\ hist[req[r].inv].content.some
                  => /\ "\n" \notin
                            {OriginalCommandTable[hist[req[r].inv].content][k] :
                                 k \in 1..Len(OriginalCommandTable[hist[req[r].inv].content])}
                     /\ Trimmed(OriginalCommandTable[hist[req[r].inv].content])
                     /\ ~hist[req[r].inv].viaFinal
                           => /\ hist[req[r].inv].verification = "warn"
                              /\ CallOf(r).state = "FAILED"

\* the error artifact began with the very command of the request, in live
\* mode; the comparison warned of a mismatch and the request failed with the
\* decoded message
C36_Witness ==
    /\ Awaited(1)
    /\ bridgeMode = "live"
    /\ hist[1].content = Some(SentCommand(BodyCoffee, "live") \o ExecutionLogOfError)
    /\ call[1].expectedCommand = Some(SentCommand(BodyCoffee, "live"))
    /\ hist[1].verification = "warn"
    /\ call[1].state = "FAILED"
    /\ call[1].result.details = Some(<<"X">>)
    /\ req[1].status = 500

\* the same in test mode
C36_WitnessTest ==
    /\ Awaited(1)
    /\ bridgeMode = "test"
    /\ hist[1].content = Some(SentCommand(BodyCoffee, "test") \o ExecutionLogOfError)
    /\ call[1].expectedCommand = Some(SentCommand(BodyCoffee, "test"))
    /\ hist[1].verification = "warn"
    /\ call[1].state = "FAILED"

\* C37: a print request that passes validation with an item list only, without
\* productName, duration and price, never produces a command artifact:
\* rendering throws inside generateReceiptFile, which returns null; the step
\* writes nothing to the inbox and starts no waitForResponse, and the handler
\* answers with status 500
C37_ItemsOnlyNeverWritten ==
    /\ [][\A r \in Req :
            Arrives(r) /\ req'[r].itemsOnly /\ req'[r].valid
                => /\ req'[r].threw
                   /\ req'[r].pc = "done" /\ req'[r].status = 500 /\ req'[r].responses = 1
                   /\ bon' = bon
                   /\ \A i \in Inv : ~Started(i)
                   /\ UNCHANGED <<call, hist, bonOk, bonErr>>]_vars
    /\ [](\A r \in Req :
            req[r].itemsOnly /\ req[r].valid
                => /\ ~req[r].generated /\ req[r].writes = 0 /\ req[r].waits = 0
                   /\ req[r].inv = 0 /\ req[r].content = None
                   /\ req[r].pc = "done" /\ req[r].status = 500)

\* a request with an item list only passed validation on a working inbox and
\* was answered with 500; the inbox is empty and no invocation has started
C37_Witness ==
    /\ req[1].pc = "done" /\ req[1].itemsOnly /\ req[1].valid /\ req[1].inbox = "works"
    /\ req[1].status = 500
    /\ \A n \in InboxNames : ~bon[n].some
    /\ \A i \in Inv : call[i].state = "NOT_STARTED"

\* the clock second in which the artifact of request r was generated
SecondOf(r) ==
    (CallOf(r).startTime + StartOfRun) \div 1000

\* both requests are awaited and their artifacts were generated in one second
SameSecond ==
    Awaited(1) /\ Awaited(2) /\ SecondOf(1) = SecondOf(2)

\* the result files of the given name that are in the outboxes
ResultsFor(name) ==
    {<<"BonOK", f>> : f \in {g \in bonOk : g = name}}
        \cup {<<"BonErr", f>> : f \in {g \in ErrNames : g = name}}

C38_WitnessFailed ==
    /\ SameSecond
    /\ driverOps = 1
    /\ CallOf(1).state = "FAILED" /\ CallOf(2).state = "FAILED"
    /\ CallOf(1).result.details = CallOf(2).result.details
    /\ req[1].content # req[2].content

=============================================================================
